---- MODULE Spec2Model ----
(***************************************************************************)
(* Model of the race-record extraction pipeline of predict_boat:           *)
(*   - the reference-entity resolvers of src/db (get_or_create),           *)
(*   - register_race_result_for_db of src/extract_records_data.py.         *)
(*                                                                         *)
(* Specifications:                                                         *)
(*   SpecSeq   get_or_create calls made one after another,                 *)
(*   SpecConc  get_or_create calls of two workers, interleaved at their    *)
(*             query / add / commit steps,                                 *)
(*   Spec      register_race_result_for_db walking the lines of one file.  *)
(***************************************************************************)
EXTENDS Integers, Sequences, FiniteSets, TLC

VARIABLES
    db,                 \* the committed rows of the sqlite store, one set per table
    wk,                 \* resolver workers: position inside get_or_create and its locals
    calls,              \* number of get_or_create calls started (bounded by MaxCalls)
    returned,           \* history: (kind, natural key) -> the identities returned so far, in order
    file,               \* the layout the input file was generated from (history only)
    result_content,     \* register_race_result_for_db: the list of lines it is given
    fr,                 \* register_race_result_for_db: its locals and its position
    pm,                 \* register_race_param_for_db: its argument, locals, session and position
    bt,                 \* __main__: the files of the batch, its position and what it has called
    tr                  \* TrainingService: active_tasks, and one training generator's position

\* The state of register_race_param_for_db, of __main__ and of the training service.
xvars == <<pm, bt, tr>>

(***************************************************************************)
(* Values                                                                  *)
(***************************************************************************)
\* Python's None and a present value (an unbound local is None as well; the
\* steps that read it raise UnboundLocalError).
None == <<"None">>
Some(x) == <<"Some", x>>
IsNone(o) == o = None
Val(o) == o[2]

\* Bounds of the model.
MaxCalls == 3

Workers == {"w1", "w2"}

(***************************************************************************)
(* Text: src/extract_records_data.py reads fixed character columns.        *)
(* A line is the sequence of its characters, the final "NL" included       *)
(* (readlines keeps it).  " " is the ASCII space, "IDSP" the full-width    *)
(* space U+3000, "2w" and "3w" the full-width digits of the refund labels. *)
(***************************************************************************)
Min(S) == CHOOSE x \in S : \A y \in S : x <= y
Max(S) == CHOOSE x \in S : \A y \in S : x >= y

\* text[a:b] and text[a:] of Python (0-based, clamped to the length).
Slice(text, a, b) == SubSeq(text, a + 1, IF b < Len(text) THEN b ELSE Len(text))
SliceFrom(text, a) == SubSeq(text, a + 1, Len(text))

\* pat in text
Contains(text, pat) ==
    \E k \in 1..(Len(text) - Len(pat) + 1) : \A j \in 1..Len(pat) : text[k + j - 1] = pat[j]

\* text.find(c): the 0-based index of the first c, or -1.
Find(text, c) ==
    IF \E k \in 1..Len(text) : text[k] = c
    THEN Min({k \in 1..Len(text) : text[k] = c}) - 1
    ELSE -1

\* remove_all_blank: drops the ASCII and the full-width spaces (not the newline).
remove_all_blank(text) == SelectSeq(text, LAMBDA c : c \notin {" ", "IDSP"})

Whitespace == {" ", "IDSP", "NL"}
Digits == {"0", "1", "2", "3", "4", "5", "6", "7", "8", "9", "2w", "3w"}
DigitVal(c) ==
    CASE c = "0" -> 0 [] c = "1" -> 1 [] c \in {"2", "2w"} -> 2 [] c \in {"3", "3w"} -> 3
      [] c = "4" -> 4 [] c = "5" -> 5 [] c = "6" -> 6 [] c = "7" -> 7
      [] c = "8" -> 8 [] c = "9" -> 9

\* str.strip() as int() and float() apply it.
Strip(text) ==
    LET keep == {k \in 1..Len(text) : text[k] \notin Whitespace} IN
    IF keep = {} THEN <<>> ELSE SubSeq(text, Min(keep), Max(keep))

DigitsValue(ds) ==
    LET v[n \in 0..Len(ds)] == IF n = 0 THEN 0 ELSE v[n - 1] * 10 + DigitVal(ds[n])
    IN v[Len(ds)]

\* int(text): [ok |-> FALSE] stands for ValueError.
PyInt(text) ==
    LET t == Strip(text)
        neg == t # <<>> /\ t[1] = "-"
        ds == IF t # <<>> /\ t[1] \in {"+", "-"} THEN Tail(t) ELSE t
        ok == ds # <<>> /\ \A k \in 1..Len(ds) : ds[k] \in Digits
    IN [ok |-> ok, v |-> IF ok THEN (IF neg THEN 0 - DigitsValue(ds) ELSE DigitsValue(ds)) ELSE 0]

\* float(text) for the decimal notation of the files: digits, at most one
\* point, at least one digit.  The value is <<integer part, fraction digits>>.
PyFloat(text) ==
    LET t == Strip(text)
        ds == IF t # <<>> /\ t[1] \in {"+", "-"} THEN Tail(t) ELSE t
        dot == Find(ds, ".")
        ip == IF dot < 0 THEN ds ELSE Slice(ds, 0, dot)
        fp == IF dot < 0 THEN <<>> ELSE SliceFrom(ds, dot + 1)
        ok == /\ Len(ip) + Len(fp) > 0
              /\ \A k \in 1..Len(ip) : ip[k] \in Digits
              /\ \A k \in 1..Len(fp) : fp[k] \in Digits
    IN [ok |-> ok, v |-> IF ok THEN <<DigitsValue(ip), fp>> ELSE <<0, <<>>>>]

\* The literals the classifier looks for.
RESULT_SEPARATOR_LINE == [k \in 1..79 |-> "-"]
RACE_VOID == <<"RE", "-w", "SU", "FU", "SEI", "RITSU">>   \* "race not established"
VOID == <<"FU", "SEI", "RITSU">>                           \* its last three characters
KBGN == <<"K", "B", "G", "N">>
KEND == <<"K", "E", "N", "D">>
TANSHO == <<"TAN", "SHO">>                                 \* win
FUKUSHO == <<"FUKU", "SHO">>                               \* place
NIRENTAN == <<"2w", "REN", "TAN">>                         \* exacta
NIRENFUKU == <<"2w", "REN", "FUKU">>                       \* quinella
KAKURENFUKU == <<"KAKU", "REN", "FUKU">>                   \* boxed quinella
SANRENTAN == <<"3w", "REN", "TAN">>                        \* trifecta
SANRENFUKU == <<"3w", "REN", "FUKU">>                      \* boxed trifecta
BLANK_LINE == <<"NL">>

(***************************************************************************)
(* The input: result files laid out in the columns the parser reads.       *)
(***************************************************************************)
Sp(n) == [k \in 1..n |-> " "]
\* A field right-aligned / left-aligned in a column of width w.
PadL(tok, w) == Sp(w - Len(tok)) \o tok
PadR(tok, w) == tok \o Sp(w - Len(tok))

\* "18KBGN" / "18KEND": the two-digit stadium code and the tag.
KbgnLine(code) == code \o KBGN \o <<"NL">>
KendLine(code) == code \o KEND \o <<"NL">>
\* The line after KBGN: the stadium name in columns 0-3, then the title.
NameLine(name) == name \o <<"[", "SEI", "SEKI", "]", "NL">>
\* A line of the block header the parser has no use for.
TitleLine == Sp(3) \o <<"DAI", " ", "1", "NICHI", "NL">>

\* Race header: index in 0-4, name in 12-20, special rule in 20-31, then from
\* the "H" of the course length: weather at +8, wind direction at +15, wind
\* speed at +17, wave height at +24.
HeaderLine(index, rule, course, speed, wave) ==
    PadL(index, 4) \o <<"R">> \o Sp(7) \o PadR(<<"YO", "SEN">>, 8) \o PadR(rule, 11)
    \o Sp(2) \o course \o <<"1", "8", "0", "0", "m">> \o Sp(2)
    \o <<"HARE", "IDSP", " ">> \o <<" ", "KAZE", " ", " ">> \o <<"KITA", "IDSP">>
    \o PadL(speed, 3) \o <<"m", " ", "NAMI", "IDSP">> \o PadL(wave, 4) \o <<"c", "m", "NL">>

\* Table header: the decisive factor is what follows column 49.
TableLine(decisive) == <<" ", " ", "CHAKU", " ", "TEI">> \o Sp(44) \o decisive \o <<"NL">>

SepLine == RESULT_SEPARATOR_LINE \o <<"NL">>

\* Boat row: arrival 0-4, boat number 4-7, registration 8-12, name, motor 21-24,
\* hull 24-29, exhibition 29-35, starting order 35-39, start timing 39-47,
\* race time minutes 47-53, seconds 54-56, tenths 57-58.
BoatLine(b) ==
    PadL(b.arrival, 4) \o PadL(b.boat_number, 3) \o <<" ">> \o PadL(b.reg, 4)
    \o <<" ", "NA", "IDSP", "MAE">> \o Sp(5)
    \o PadL(b.motor, 3) \o PadL(b.hull, 5) \o PadL(b.sample, 6) \o PadL(b.order, 4)
    \o PadL(b.timing, 8) \o PadL(b.minute, 6) \o <<".">> \o PadL(b.second, 2) \o <<".">>
    \o PadL(b.tenth, 1) \o <<"NL">>

\* Labelled refund line: label inside columns 0-12, combination, amount in
\* 23-29, then the popularity text.
RefundLine(label, amount) ==
    Sp(8) \o PadR(label, 4) \o PadR(<<"1", "-", "2">>, 11) \o PadL(amount, 6)
    \o <<" ", " ", "NIN", "KI", " ", "1", "NL">>
\* Continuation line of the boxed quinella: no label, the amount three
\* columns further right (it ends at column 32).
ContinuationLine(amount) ==
    Sp(12) \o PadR(<<"1", "-", "3">>, 11) \o PadL(amount, 9) \o <<" ", " ", "NIN", "KI", " ", "2", "NL">>
WinLine(amount) ==
    Sp(8) \o PadR(TANSHO, 4) \o PadR(<<"1">>, 11) \o PadL(amount, 6) \o <<" ", " ", "NL">>
\* Place line: first payout in 23-29, the second boat and payout after column 33.
PlaceLine(amount, second) ==
    Sp(8) \o PadR(FUKUSHO, 4) \o PadR(<<"1">>, 11) \o PadL(amount, 6) \o Sp(4) \o second \o <<"NL">>
\* The line that announces a voided race.
NoGameLine == Sp(8) \o RACE_VOID \o <<"NL">>

\* The six boats of a well-formed race: boat n arrives n-th.
Tok(n) == <<CASE n = 1 -> "1" [] n = 2 -> "2" [] n = 3 -> "3" [] n = 4 -> "4"
              [] n = 5 -> "5" [] n = 6 -> "6" [] n = 7 -> "7" [] n = 8 -> "8"
              [] n = 9 -> "9" [] n = 0 -> "0">>
GoodBoat(n) ==
    [arrival |-> <<"0">> \o Tok(n), boat_number |-> Tok(n),
     reg |-> <<"4", "3", "2">> \o Tok(n - 1), motor |-> <<"1">> \o Tok(n),
     hull |-> <<"3">> \o Tok(n), sample |-> <<"6", ".", "8">> \o Tok(n),
     order |-> Tok(n), timing |-> <<"0", ".", "1">> \o Tok(n),
     minute |-> <<"1">>, second |-> <<"4">> \o Tok(n), tenth |-> Tok(n)]

\* What a corrupt numeral looks like.
Garbled == <<"?">>

(***************************************************************************)
(* The files the parser is run on.  A file is a sequence of stadium        *)
(* blocks, a block a sequence of race spans, a span one of SpanKinds.      *)
(***************************************************************************)
MaxBlocks == 2      \* stadium blocks in a file
MaxSpans == 3       \* race spans in a file, all blocks together

\* std      the full span: six boats, all seven refund categories, the place
\*          line with two payouts, the boxed quinella on three lines
\* place1   std with one payout on the place line
\* noplace  std without the place line
\* bq1, bq2 noplace with the boxed quinella on one / two lines
\* five     noplace with five boat rows;   dup: boat number 5 on two rows
\* bad_*    noplace with one numeral of the third boat row garbled
\* nogame   the span of a voided race: the announcement follows the separator
\* tie      noplace without the exacta and the trifecta line (a tied finish)
\* nokend   noplace in a block that has no KEND line
\* q2       noplace with two quinella payouts: an unlabelled line follows
\*          the quinella line, before the boxed-quinella label
\* noblank  noplace without the blank line between the boat rows and the
\*          win line;   noend: noplace without the blank line after the
\*          refund rows
\* blankname  noplace in a block whose KBGN line is followed by a blank line
\* kend99   noplace with the KEND line of another stadium code, 99KEND,
\*          after its third boat row
\* hdr_*    noplace whose header line has a garbled race index, wind speed
\*          or wave height, or lacks the H of the course length
BoatFields ==
    {"arrival", "boat_number", "reg", "motor", "hull", "sample", "order", "timing", "minute"}
BadKind(f) == <<"bad", f>>
HeaderFields == {"index", "speed", "wave", "H"}
BadHeader(f) == <<"hdr", f>>
SpanKinds ==
    {<<"std">>, <<"place1">>, <<"noplace">>, <<"bq1">>, <<"bq2">>, <<"five">>, <<"dup">>,
     <<"nogame">>, <<"tie">>, <<"nokend">>, <<"q2">>,
     <<"noblank">>, <<"noend">>, <<"blankname">>, <<"kend99">>} \cup {BadKind(f) : f \in BoatFields}
    \cup {BadHeader(f) : f \in HeaderFields}
Baseline == <<"noplace">>

BoatsOf(kind) ==
    CASE kind = <<"five">> -> [n \in 1..5 |-> GoodBoat(n)]
      [] kind = <<"dup">> -> [n \in 1..6 |-> IF n = 6 THEN [GoodBoat(6) EXCEPT !.boat_number = Tok(5)]
                                                    ELSE GoodBoat(n)]
      [] kind[1] = "bad" -> [n \in 1..6 |-> IF n = 3 THEN [GoodBoat(3) EXCEPT ![kind[2]] = Garbled]
                                                    ELSE GoodBoat(n)]
      [] kind = <<"nogame">> -> <<>>
      [] OTHER -> [n \in 1..6 |-> GoodBoat(n)]

\* The number of payout lines of the boxed quinella.
BqLines(kind) == CASE kind = <<"bq1">> -> 1 [] kind = <<"bq2">> -> 2 [] OTHER -> 3

SecondPlace == <<"2">> \o PadL(<<"1", "1", "0">>, 13) \o Sp(2)

RefundsOf(kind) ==
    <<WinLine(<<"1", "2", "0">>)>>
    \o (CASE kind = <<"std">> -> <<PlaceLine(<<"1", "0", "0">>, SecondPlace)>>
          [] kind = <<"place1">> -> <<PlaceLine(<<"1", "0", "0">>, Sp(2))>>
          [] OTHER -> <<>>)
    \o (IF kind = <<"tie">> THEN <<>> ELSE <<RefundLine(NIRENTAN, <<"3", "3", "0">>)>>)
    \o <<RefundLine(NIRENFUKU, <<"2", "3", "0">>)>>
    \o (IF kind = <<"q2">> THEN <<ContinuationLine(<<"2", "5", "0">>)>> ELSE <<>>)
    \o <<RefundLine(KAKURENFUKU, <<"1", "3", "0">>)>>
    \o SubSeq(<<ContinuationLine(<<"1", "5", "0">>), ContinuationLine(<<"2", "8", "0">>)>>,
              1, BqLines(kind) - 1)
    \o (IF kind = <<"tie">> THEN <<>> ELSE <<RefundLine(SANRENTAN, <<"8", "2", "0">>)>>)
    \o <<RefundLine(SANRENFUKU, <<"3", "8", "0">>)>>

\* Even races carry a special rule, odd races none.
RuleOf(r) == IF r % 2 = 0 THEN <<"SHIN", "NYU">> ELSE <<>>
DecisiveOf(r) == IF r % 2 = 0 THEN <<"SA", "SHI">> ELSE <<"NI", "GE">>

\* A stadium code no block of the files is opened with.
ForeignCode == <<"9", "9">>

SpanLines(kind, r) ==
    <<HeaderLine(IF kind = BadHeader("index") THEN Garbled ELSE Tok(r), RuleOf(r),
                 IF kind = BadHeader("H") THEN <<"K">> ELSE <<"H">>,
                 IF kind = BadHeader("speed") THEN Garbled ELSE Tok(r + 1),
                 IF kind = BadHeader("wave") THEN Garbled ELSE Tok(r + 2)),
      TableLine(DecisiveOf(r)), SepLine>>
    \o (IF kind = <<"nogame">>
        THEN <<NoGameLine, BLANK_LINE>>
        ELSE [n \in 1..3 |-> BoatLine(BoatsOf(kind)[n])]
             \o (IF kind = <<"kend99">> THEN <<KendLine(ForeignCode)>> ELSE <<>>)
             \o [n \in 1..(Len(BoatsOf(kind)) - 3) |-> BoatLine(BoatsOf(kind)[n + 3])]
             \o (IF kind = <<"noblank">> THEN <<>> ELSE <<BLANK_LINE>>)
             \o RefundsOf(kind)
             \o (IF kind = <<"noend">> THEN <<>> ELSE <<BLANK_LINE>>))

\* The stadium of the b-th block of a file: its code and its name line.
BlockStadium(b) ==
    CASE b = 1 -> [id |-> 18, code |-> <<"1", "8">>, name |-> <<"TOKU", "IDSP", "YAMA">>]
      [] b = 2 -> [id |-> 24, code |-> <<"2", "4">>, name |-> <<"O", "IDSP", "MURA">>]
      [] b = 3 -> [id |-> 1, code |-> <<"0", "1">>, name |-> <<"KIRI", "IDSP", "U">>]
      [] OTHER -> [id |-> 2, code |-> <<"0", "2">>, name |-> <<"TO", "IDSP", "DA">>]

Flatten(ss) ==
    LET f[n \in 0..Len(ss)] == IF n = 0 THEN <<>> ELSE f[n - 1] \o ss[n]
    IN f[Len(ss)]

BlockLines(b, kinds) ==
    <<KbgnLine(BlockStadium(b).code)>>
    \o (IF \E r \in 1..Len(kinds) : kinds[r] = <<"blankname">> THEN <<BLANK_LINE>> ELSE <<>>)
    \o <<NameLine(BlockStadium(b).name), TitleLine>>
    \o Flatten([r \in 1..Len(kinds) |-> SpanLines(kinds[r], r)])
    \o (IF \E r \in 1..Len(kinds) : kinds[r] = <<"nokend">>
        THEN <<>> ELSE <<KendLine(BlockStadium(b).code)>>)

FileLines(f) == Flatten([b \in 1..Len(f) |-> BlockLines(b, f[b])])

SumSeq(q) ==
    LET t[n \in 0..Len(q)] == IF n = 0 THEN 0 ELSE t[n - 1] + q[n]
    IN t[Len(q)]

\* The block sizes of a file: at most MaxBlocks blocks, each with a race,
\* at most MaxSpans races in all.
Shapes ==
    UNION {{q \in [1..nb -> 1..MaxSpans] : SumSeq(q) <= MaxSpans} : nb \in 1..MaxBlocks}

\* The files: every span is the baseline span, but for at most one span,
\* which is of any kind.
Files ==
    UNION {{[b \in 1..Len(q) |-> [r \in 1..q[b] |->
                IF <<b, r>> = at THEN kind ELSE Baseline]] :
              at \in {<<b, r>> : b \in 1..Len(q), r \in 1..MaxSpans}, kind \in SpanKinds}
           : q \in Shapes}

(***************************************************************************)
(* src/db/stadium.py                                                       *)
(***************************************************************************)
\* Text is a sequence of characters.  A character of the source's Japanese
\* text is written as one upper-case atom per character: <<"TOKU", "YAMA">> is
\* the stadium name of id 18, <<"O", "MURA">> that of id 24.
\* The keys of branch_dict, change_motor_timing_dict and change_boat_timing_dict
\* (the three dictionaries have the same 24 keys).
branch_dict ==
    [n \in {<<"TO", "DA">>, <<"E", "DO", "GAWA">>, <<"HEI", "WA", "JIMA">>,
            <<"TA", "MA", "GAWA">>, <<"GAMA", "GORI">>, <<"MI", "KUNI">>,
            <<"BI", "WA", "KO">>, <<"SUMI", "NO", "E">>, <<"AMA", "GASAKI">>,
            <<"NARU", "TO">>, <<"MIYA", "JIMA">>, <<"SHIMO", "NOSEKI">>,
            <<"FUKU", "OKA">>, <<"KIRI", "U">>, <<"HAMA", "NA", "KO">>,
            <<"TOKO", "NAME">>, <<"TSU">>, <<"MARU", "GAME">>, <<"KO", "JIMA">>,
            <<"TOKU", "YAMA">>, <<"WAKA", "MATSU">>, <<"ASHI", "YA">>,
            <<"KARA", "TSU">>, <<"O", "MURA">>} |->
        CASE n = <<"KIRI", "U">> -> "Gunma" [] n = <<"TO", "DA">> -> "Saitama"
          [] n \in {<<"E", "DO", "GAWA">>, <<"HEI", "WA", "JIMA">>, <<"TA", "MA", "GAWA">>} -> "Tokyo"
          [] n = <<"HAMA", "NA", "KO">> -> "Shizuoka"
          [] n \in {<<"GAMA", "GORI">>, <<"TOKO", "NAME">>} -> "Aichi"
          [] n = <<"TSU">> -> "Mie" [] n = <<"MI", "KUNI">> -> "Fukui"
          [] n = <<"BI", "WA", "KO">> -> "Shiga" [] n = <<"SUMI", "NO", "E">> -> "Osaka"
          [] n = <<"AMA", "GASAKI">> -> "Hyogo" [] n = <<"NARU", "TO">> -> "Tokushima"
          [] n = <<"MARU", "GAME">> -> "Kagawa" [] n = <<"KO", "JIMA">> -> "Okayama"
          [] n = <<"MIYA", "JIMA">> -> "Hiroshima"
          [] n \in {<<"TOKU", "YAMA">>, <<"SHIMO", "NOSEKI">>} -> "Yamaguchi"
          [] n \in {<<"WAKA", "MATSU">>, <<"ASHI", "YA">>, <<"FUKU", "OKA">>} -> "Fukuoka"
          [] n = <<"KARA", "TSU">> -> "Saga" [] n = <<"O", "MURA">> -> "Nagasaki"]

\* Stadium.__init__: the three dictionary look-ups raise KeyError for a name
\* that is no key; otherwise the row to insert.
StadiumInit(id, stadium_name) ==
    IF stadium_name \in DOMAIN branch_dict
    THEN [exc |-> "", row |-> [id |-> id, stadium_name |-> stadium_name,
                                branch_name |-> branch_dict[stadium_name]]]
    ELSE [exc |-> "KeyError", row |-> [id |-> id, stadium_name |-> stadium_name,
                                        branch_name |-> ""]]

(***************************************************************************)
(* The three resolvers step by step.  A call is                            *)
(*   query  : session.query(T).filter_by(key).one_or_none()                *)
(*   add    : T(...) ; session.add(row)            (only when none found)  *)
(*   commit : session.commit()  -- the INSERT reaches the store            *)
(*   return : the entity found or created                                  *)
(***************************************************************************)
Kinds == {"stadium", "decisive_factor", "special_rule"}

\* The natural keys the calls are made with: <<kind, key, name>>.  For
\* a stadium the key is the id and the name is the second argument; for the
\* other two the key is the name (None for a blank special rule).
StadiumArgs == {<<"stadium", 18, <<"TOKU", "YAMA">>>>, <<"stadium", 24, <<"O", "MURA">>>>, <<"stadium", 18, <<>>>>}
DecisiveArgs == {<<"decisive_factor", <<"NI", "GE", "NL">>, <<"NI", "GE", "NL">>>>}
SpecialArgs == {<<"special_rule", None, None>>, <<"special_rule", Some(<<"SHIN", "NYU">>), Some(<<"SHIN", "NYU">>)>>}
CallArgs == StadiumArgs \cup DecisiveArgs \cup SpecialArgs

\* filter_by(...) of each resolver: the column the key is compared with.
KeyOf(kind, row) ==
    CASE kind = "stadium" -> row.id
      [] kind = "decisive_factor" -> row.decisive_factor_name
      [] kind = "special_rule" -> row.special_rule_name
      [] kind = "weather" -> row.weather_name
      [] kind = "wind_direction" -> row.wind_direction_name

\* A query that never finds the row.
MatchingNothing(store, kind, key) == {}

Matching(store, kind, key) == {r \in store[kind] : KeyOf(kind, r) = key}

\* id = Column(Integer, primary_key=True, autoincrement=True): the next rowid.
NextId(rows) == Cardinality(rows) + 1

\* The entity constructed on a miss (its id is assigned at INSERT).
NewEntity(kind, key, name) ==
    CASE kind = "stadium" -> StadiumInit(key, name)
      [] kind = "decisive_factor" -> [exc |-> "", row |-> [id |-> 0, decisive_factor_name |-> name]]
      [] kind = "special_rule" -> [exc |-> "", row |-> [id |-> 0, special_rule_name |-> name]]
      [] kind = "weather" -> [exc |-> "", row |-> [id |-> 0, weather_name |-> name]]
      [] kind = "wind_direction" -> [exc |-> "", row |-> [id |-> 0, wind_direction_name |-> name]]

\* The primary key is the only uniqueness constraint any of the three tables
\* declares: Stadium.id is supplied by the caller, the other ids are generated.
InsertConflicts(store, kind, row) ==
    kind = "stadium" /\ \E r \in store[kind] : r.id = row.id

Inserted(store, kind, row) ==
    IF kind = "stadium" THEN row ELSE [row EXCEPT !.id = NextId(store[kind])]

Idle == [pc |-> "idle", kind |-> "", key |-> None, name |-> None,
         entity |-> None, exc |-> ""]

EmptyDb ==
    [stadium |-> {}, decisive_factor |-> {}, special_rule |-> {}, weather |-> {},
     wind_direction |-> {}, player |-> {}, motor |-> {}, boat |-> {},
     each_race_result |-> {}, each_boat_data |-> {},
     rank |-> {}, branch |-> {}, player_data |-> {}, player_national_win_rate |-> {},
     player_local_win_rate |-> {}, motor_top2finish_rate |-> {}, boat_top2finish_rate |-> {}]

\* A store left by an earlier run: one row per table.
SeededDb ==
    [EmptyDb EXCEPT
        !.stadium = {StadiumInit(18, <<"TOKU", "YAMA">>).row},
        !.decisive_factor = {[id |-> 1, decisive_factor_name |-> <<"NI", "GE", "NL">>]},
        !.special_rule = {[id |-> 1, special_rule_name |-> None]}]

InitResolver ==
    /\ db \in {EmptyDb, SeededDb}
    /\ wk = [w \in Workers |-> Idle]
    /\ calls = 0
    /\ returned = [a \in {<<c[1], c[2]>> : c \in CallArgs} |-> <<>>]
    /\ file = <<>>
    /\ result_content = <<>>
    /\ fr = [pc |-> "none"]
    /\ pm = [pc |-> "none"]
    /\ bt = [pc |-> "none"]
    /\ tr = [pc |-> "none"]

\* A worker enters get_or_create(session, key...).
Begin(w, c) ==
    /\ wk[w].pc = "idle"
    /\ calls < MaxCalls
    /\ calls' = calls + 1
    /\ wk' = [wk EXCEPT ![w] = [Idle EXCEPT !.pc = "query", !.kind = c[1],
                                             !.key = c[2], !.name = c[3]]]
    /\ UNCHANGED <<db, returned, file, result_content, fr, xvars>>

\* Sequential resolution: a call starts only when no other call is under way.
BeginSeq(w) ==
    /\ \A v \in Workers : wk[v].pc \in {"idle", "raised"}
    /\ \E c \in CallArgs : Begin(w, c)

BeginConc(w) == \E c \in CallArgs : Begin(w, c)

\* session.query(T).filter_by(...).one_or_none()
Query(w) ==
    /\ wk[w].pc = "query"
    /\ LET m == Matching(db, wk[w].kind, wk[w].key) IN
       wk' = [wk EXCEPT ![w] =
                IF Cardinality(m) > 1
                THEN [@ EXCEPT !.pc = "raised", !.exc = "MultipleResultsFound"]
                ELSE IF m = {}
                THEN [@ EXCEPT !.pc = "add"]
                ELSE [@ EXCEPT !.pc = "return", !.entity = Some(CHOOSE r \in m : TRUE)]]
    /\ UNCHANGED <<db, calls, returned, file, result_content, fr, xvars>>

\* entity = T(...) ; session.add(entity)
Add(w) ==
    /\ wk[w].pc = "add"
    /\ LET e == NewEntity(wk[w].kind, wk[w].key, wk[w].name) IN
       wk' = [wk EXCEPT ![w] =
                IF e.exc # ""
                THEN [@ EXCEPT !.pc = "raised", !.exc = e.exc]
                ELSE [@ EXCEPT !.pc = "commit", !.entity = Some(e.row)]]
    /\ UNCHANGED <<db, calls, returned, file, result_content, fr, xvars>>

\* session.commit(): the INSERT is flushed and committed, or the primary key
\* is already taken and the commit raises IntegrityError.
Commit(w) ==
    /\ wk[w].pc = "commit"
    /\ LET k == wk[w].kind
           row == Val(wk[w].entity) IN
       IF InsertConflicts(db, k, row)
       THEN /\ wk' = [wk EXCEPT ![w] = [@ EXCEPT !.pc = "raised", !.exc = "IntegrityError"]]
            /\ UNCHANGED db
       ELSE /\ db' = [db EXCEPT ![k] = @ \cup {Inserted(db, k, row)}]
            /\ wk' = [wk EXCEPT ![w] = [@ EXCEPT !.pc = "return",
                                                  !.entity = Some(Inserted(db, k, row))]]
    /\ UNCHANGED <<calls, returned, file, result_content, fr, xvars>>

\* return entity
Return(w) ==
    /\ wk[w].pc = "return"
    /\ returned' = [returned EXCEPT ![<<wk[w].kind, wk[w].key>>] = Append(@, Val(wk[w].entity).id)]
    /\ wk' = [wk EXCEPT ![w] = [@ EXCEPT !.pc = "idle"]]
    /\ UNCHANGED <<db, calls, file, result_content, fr, xvars>>

(***************************************************************************)
(* The resolvers as the parser calls them: one call, start to end.         *)
(***************************************************************************)
GetOrCreate(store, kind, key, name) ==
    LET m == Matching(store, kind, key)
        e == NewEntity(kind, key, name)
    IN IF Cardinality(m) > 1 THEN [exc |-> "MultipleResultsFound", db |-> store, id |-> 0]
       ELSE IF m # {} THEN [exc |-> "", db |-> store, id |-> (CHOOSE r \in m : TRUE).id]
       ELSE IF e.exc # "" THEN [exc |-> e.exc, db |-> store, id |-> 0]
       ELSE IF InsertConflicts(store, kind, e.row)
       THEN [exc |-> "IntegrityError", db |-> store, id |-> 0]
       ELSE [exc |-> "", db |-> [store EXCEPT ![kind] = @ \cup {Inserted(store, kind, e.row)}],
             id |-> Inserted(store, kind, e.row).id]

\* db.weather.get_or_create and db.wind_direction.get_or_create: resolvers by
\* name like the one of decisive_factor.
weather_get_or_create(store, name) == GetOrCreate(store, "weather", name, name)
wind_direction_get_or_create(store, name) == GetOrCreate(store, "wind_direction", name, name)

\* db.player.get: the player of that registration number, or None.
player_get(store, id) ==
    IF \E r \in store.player : r.id = id THEN Some(id) ELSE None

\* db.motor.get / db.boat.get: .first() of the rows of that number and stadium.
FirstOf(rows) == IF rows = {} THEN None ELSE Some(Min({r.id : r \in rows}))
motor_get(store, motor_number, stadium) ==
    FirstOf({r \in store.motor : r.motor_number = motor_number /\ r.stadium = stadium})
boat_get(store, boat_number, stadium) ==
    FirstOf({r \in store.boat : r.boat_number = boat_number /\ r.stadium = stadium})

(***************************************************************************)
(* src/db/each_race_results.py                                             *)
(***************************************************************************)
RaceRequired ==
    {"stadium", "date", "race_index", "race_name", "special_rule", "weather",
     "wind_direction", "wind_speed", "wave_height", "decisive_factor"}
RaceOptional ==
    {"win_refund", "place_refund", "perfecta_refund", "quinella_refund",
     "boxed_quinella_refund1", "boxed_quinella_refund2", "boxed_quinella_refund3",
     "trifecta_refund", "boxed_trifecta_refund"}

\* A constructor none of whose parameters has a default.
EachRaceResultInitNoDefaults(kwargs) ==
    IF DOMAIN kwargs = RaceRequired \cup RaceOptional
    THEN [exc |-> "", row |-> kwargs]
    ELSE [exc |-> "TypeError", row |-> <<>>]

\* EachRaceResult(**kwargs): a keyword that is no parameter, or a missing
\* required one, is a TypeError; an optional parameter not given is None.
EachRaceResultInit(kwargs) ==
    IF DOMAIN kwargs \subseteq (RaceRequired \cup RaceOptional) /\ RaceRequired \subseteq DOMAIN kwargs
    THEN [exc |-> "", row |-> [p \in RaceRequired \cup RaceOptional |->
                                  IF p \in DOMAIN kwargs THEN kwargs[p] ELSE None]]
    ELSE [exc |-> "TypeError", row |-> <<>>]

\* create_and_get: construct (a failure is re-raised as Exception), add, commit.
create_and_get(store, kwargs) ==
    LET e == EachRaceResultInit(kwargs)
        id == NextId(store.each_race_result)
    IN IF e.exc # "" THEN [exc |-> "Exception", db |-> store, id |-> 0]
       ELSE [exc |-> "", id |-> id,
             db |-> [store EXCEPT !.each_race_result = @ \cup {e.row @@ [id |-> id]}]]

(***************************************************************************)
(* register_race_result_for_db, one line of result_content per step.       *)
(***************************************************************************)
\* The date argument.
RaceDate == "2024-01-01"

InitFrame ==
    [pc |-> "loop", exc |-> "", i |-> 0,
     is_stadium |-> FALSE, is_refund_data |-> FALSE, is_each_result_info |-> FALSE,
     is_no_game |-> FALSE,
     stadium_id |-> None, stadium |-> None,
     each_boat_data_list |-> None, each_race_results_dict |-> None,
     each_boat_result_list |-> <<>>]

\* What an earlier register_race_param_for_db left in the store.
ParamDb ==
    [EmptyDb EXCEPT
        !.stadium = {StadiumInit(18, <<"TOKU", "YAMA">>).row},
        !.player = {[id |-> 4320], [id |-> 4321], [id |-> 4322]},
        !.motor = {[id |-> 1, motor_number |-> 11, stadium |-> 18],
                   [id |-> 2, motor_number |-> 12, stadium |-> 18]},
        !.boat = {[id |-> 1, boat_number |-> 31, stadium |-> 18]}]

Init ==
    /\ file \in Files
    /\ result_content = FileLines(file)
    /\ fr = InitFrame
    /\ db = ParamDb
    /\ wk = [w \in Workers |-> Idle]
    /\ calls = 0
    /\ returned = [a \in {<<c[1], c[2]>> : c \in CallArgs} |-> <<>>]
    /\ pm = [pc |-> "none"]
    /\ bt = [pc |-> "none"]
    /\ tr = [pc |-> "none"]

rvars == <<wk, calls, returned>>
pvars == <<file, result_content, fr>>

each_line == result_content[fr.i + 1]
InLoop == fr.pc = "loop" /\ fr.i < Len(result_content)

\* The literals the loop body tests each line for, and the tests "q in line"
\* tabulated once for every line that occurs in a file of Files.
Patterns == {RACE_VOID, KBGN, RESULT_SEPARATOR_LINE, TANSHO, KEND}
AllLines ==
    UNION {{SpanLines(k, r)[n] : n \in 1..Len(SpanLines(k, r))} :
              k \in SpanKinds, r \in 1..MaxSpans}
    \cup UNION {{KbgnLine(BlockStadium(b).code), NameLine(BlockStadium(b).name), TitleLine,
                 KendLine(BlockStadium(b).code)} : b \in 1..MaxBlocks}
PatternsIn == [l \in AllLines |-> {q \in Patterns : Contains(l, q)}] @@ <<>>
In(q, line) == q \in PatternsIn[line]

\* The branch of the loop body a line takes: the tests in the order of the code.
Branch(f, line) ==
    IF In(RACE_VOID, line) THEN "no_game"
    ELSE IF In(KBGN, line) THEN "kbgn"
    ELSE IF f.is_stadium THEN "stadium"
    ELSE IF In(RESULT_SEPARATOR_LINE, line) THEN "separator"
    ELSE IF In(TANSHO, line) THEN "win"
    ELSE IF In(KEND, line) THEN "kend"
    ELSE IF f.is_each_result_info THEN (IF line = BLANK_LINE THEN "boat_blank" ELSE "boat_row")
    ELSE IF f.is_refund_data THEN (IF line = BLANK_LINE THEN "refund_blank" ELSE "refund_line")
    ELSE "skip"

Raise(f, e) == [f EXCEPT !.pc = "raised", !.exc = e]
Continue(f) == [f EXCEPT !.i = @ + 1]

\* 40-43: the voided-race announcement: flag, print, return.
NoGame ==
    /\ InLoop /\ Branch(fr, each_line) = "no_game"
    /\ fr' = [fr EXCEPT !.is_no_game = TRUE, !.pc = "returned"]
    /\ UNCHANGED <<db, file, result_content, rvars, xvars>>

\* 45-48
Kbgn ==
    /\ InLoop /\ Branch(fr, each_line) = "kbgn"
    /\ LET code == PyInt(Slice(each_line, 0, 2))
           f1 == [fr EXCEPT !.is_stadium = TRUE] IN
       fr' = IF code.ok THEN Continue([f1 EXCEPT !.stadium_id = Some(code.v)])
             ELSE Raise(f1, "ValueError")
    /\ UNCHANGED <<db, file, result_content, rvars, xvars>>

\* 50-54
StadiumName ==
    /\ InLoop /\ Branch(fr, each_line) = "stadium"
    /\ LET stadium_name == remove_all_blank(Slice(each_line, 0, 3))
           r == GetOrCreate(db, "stadium", Val(fr.stadium_id), stadium_name) IN
       IF IsNone(fr.stadium_id)
       THEN fr' = Raise(fr, "UnboundLocalError") /\ UNCHANGED db
       ELSE /\ db' = r.db
            /\ fr' = IF r.exc # "" THEN Raise(fr, r.exc)
                     ELSE Continue([fr EXCEPT !.stadium = Some(r.id), !.is_stadium = FALSE])
    /\ UNCHANGED <<file, result_content, rvars, xvars>>

\* result_content[k] of Python for k >= -2.
HasIndex(k) == IF k >= 0 THEN k < Len(result_content) ELSE 0 - k <= Len(result_content)
PyIndex(k) == IF k >= 0 THEN result_content[k + 1] ELSE result_content[Len(result_content) + k + 1]

\* An index that takes the line right before the separator for the header.
HeaderIndexOneBack(i) == i - 1
\* 62: race_meta_info_line = result_content[i-2]
HeaderIndex(i) == i - 2

\* 56-86: the separator line: the race header two lines back and the table
\* header one line back are decoded into a new each_race_results_dict.
DecodeHeader(store, f, i) ==
    LET race_meta_info_line == PyIndex(HeaderIndex(i))
        decisive_factor_line == PyIndex(i - 1)
        race_index == PyInt(remove_all_blank(Slice(race_meta_info_line, 0, 4)))
        race_name == remove_all_blank(Slice(race_meta_info_line, 12, 20))
        rule_text == remove_all_blank(Slice(race_meta_info_line, 20, 31))
        special_rule == IF rule_text = <<>> THEN None ELSE Some(rule_text)
        r1 == GetOrCreate(store, "special_rule", special_rule, special_rule)
        H_index == Find(SliceFrom(race_meta_info_line, 31), "H")
        meta == SliceFrom(race_meta_info_line, 31 + H_index)
        r2 == weather_get_or_create(r1.db, remove_all_blank(Slice(meta, 8, 11)))
        r3 == wind_direction_get_or_create(r2.db, remove_all_blank(Slice(meta, 15, 17)))
        wind_speed == PyInt(remove_all_blank(Slice(meta, 17, 20)))
        wave_height == PyInt(remove_all_blank(Slice(meta, 24, 28)))
        r4 == GetOrCreate(r3.db, "decisive_factor",
                          remove_all_blank(SliceFrom(decisive_factor_line, 49)),
                          remove_all_blank(SliceFrom(decisive_factor_line, 49)))
    IN IF IsNone(f.stadium) THEN [exc |-> "UnboundLocalError", db |-> store, dict |-> <<>>]
       ELSE IF ~HasIndex(HeaderIndex(i)) THEN [exc |-> "IndexError", db |-> store, dict |-> <<>>]
       ELSE IF ~race_index.ok THEN [exc |-> "ValueError", db |-> store, dict |-> <<>>]
       ELSE IF r1.exc # "" THEN [exc |-> r1.exc, db |-> r1.db, dict |-> <<>>]
       ELSE IF r2.exc # "" THEN [exc |-> r2.exc, db |-> r2.db, dict |-> <<>>]
       ELSE IF r3.exc # "" THEN [exc |-> r3.exc, db |-> r3.db, dict |-> <<>>]
       ELSE IF ~wind_speed.ok \/ ~wave_height.ok THEN [exc |-> "ValueError", db |-> r3.db, dict |-> <<>>]
       ELSE IF r4.exc # "" THEN [exc |-> r4.exc, db |-> r4.db, dict |-> <<>>]
       ELSE [exc |-> "", db |-> r4.db,
             dict |-> [date |-> RaceDate, stadium |-> Val(f.stadium),
                       race_index |-> race_index.v, race_name |-> race_name,
                       special_rule |-> r1.id,
                       weather |-> r2.id, wind_direction |-> r3.id,
                       wind_speed |-> wind_speed.v, wave_height |-> wave_height.v,
                       decisive_factor |-> r4.id]]

Separator ==
    /\ InLoop /\ Branch(fr, each_line) = "separator"
    /\ LET d == DecodeHeader(db, fr, fr.i)
           f1 == [fr EXCEPT !.each_boat_data_list = Some(<<>>)] IN
       /\ db' = d.db
       /\ fr' = IF d.exc # "" THEN Raise(f1, d.exc)
                ELSE Continue([f1 EXCEPT !.each_race_results_dict = Some(d.dict),
                                         !.is_each_result_info = TRUE])
    /\ UNCHANGED <<file, result_content, rvars, xvars>>

\* 91-99 and 162-170: the payout of a refund line.
RefundOf(line) ==
    IF Contains(line, VOID) THEN [ok |-> TRUE, v |-> None]
    ELSE LET n == IF remove_all_blank(Slice(line, 0, 12)) = <<>>
                  THEN PyInt(remove_all_blank(Slice(line, 23, 32)))
                  ELSE PyInt(remove_all_blank(Slice(line, 23, 29)))
         IN [ok |-> n.ok, v |-> Some(n.v)]

\* dict[key] = value
SetKey(dict, key, value) == [k \in DOMAIN dict \cup {key} |-> IF k = key THEN value ELSE dict[k]]

\* 88-103: the win line opens the refund rows.
Win ==
    /\ InLoop /\ Branch(fr, each_line) = "win"
    /\ LET refund == RefundOf(each_line)
           f1 == [fr EXCEPT !.is_refund_data = TRUE] IN
       fr' = IF ~refund.ok THEN Raise(f1, "ValueError")
             ELSE IF IsNone(fr.each_race_results_dict) THEN Raise(f1, "UnboundLocalError")
             ELSE Continue([f1 EXCEPT !.each_race_results_dict =
                                 Some(SetKey(Val(@), "win_refund", refund.v))])
    /\ UNCHANGED <<db, file, result_content, rvars, xvars>>

\* 105-108
Kend ==
    /\ InLoop /\ Branch(fr, each_line) = "kend"
    /\ fr' = Continue([fr EXCEPT !.is_stadium = FALSE, !.is_each_result_info = FALSE])
    /\ UNCHANGED <<db, file, result_content, rvars, xvars>>

\* 110-113: the blank line that ends the boat rows.
BoatBlank ==
    /\ InLoop /\ Branch(fr, each_line) = "boat_blank"
    /\ fr' = Continue([fr EXCEPT !.is_each_result_info = FALSE])
    /\ UNCHANGED <<db, file, result_content, rvars, xvars>>

\* try: x = conv(...) except: x = None
OrNone(p) == IF p.ok THEN Some(p.v) ELSE None

\* dt.time(minute=int(..), second=int(..), microsecond=int(..)*100000)
RaceTime(line) ==
    LET m == PyInt(Slice(line, 47, 53))
        sec == PyInt(Slice(line, 54, 56))
        t == PyInt(Slice(line, 57, 58))
        ok == /\ m.ok /\ sec.ok /\ t.ok
              /\ m.v \in 0..59 /\ sec.v \in 0..59 /\ t.v \in 0..9
    IN [ok |-> ok, v |-> IF ok THEN <<m.v, sec.v, t.v * 100000>> ELSE <<>>]

\* An arrival order that falls back to 0.
ArrivalOrZero(p) == IF p.ok THEN p.v ELSE 0
\* 116-120: the arrival order, 99 when the slice is no integer.
ArrivalOf(p) == IF p.ok THEN p.v ELSE 99

\* 115-145: one boat row.  The arrival order and the four fields decoded
\* under try/except fall back; the other conversions raise.
DecodeBoat(store, f, line) ==
    LET order_of_arrival == PyInt(remove_all_blank(Slice(line, 0, 4)))
        boat_number == PyInt(remove_all_blank(Slice(line, 4, 7)))
        player_id == PyInt(remove_all_blank(Slice(line, 8, 12)))
        motor_number == PyInt(remove_all_blank(Slice(line, 21, 24)))
        hull_number == PyInt(remove_all_blank(Slice(line, 24, 29)))
    IN IF ~boat_number.ok \/ ~player_id.ok \/ ~motor_number.ok \/ ~hull_number.ok
       THEN [exc |-> "ValueError", dict |-> <<>>]
       ELSE [exc |-> "",
             dict |-> [order_of_arrival |-> ArrivalOf(order_of_arrival),
                       boat_number |-> boat_number.v,
                       player |-> player_get(store, player_id.v),
                       motor |-> motor_get(store, motor_number.v, Val(f.stadium)),
                       boat |-> boat_get(store, hull_number.v, Val(f.stadium)),
                       sample_time |-> OrNone(PyFloat(remove_all_blank(Slice(line, 29, 35)))),
                       starting_order |-> OrNone(PyInt(remove_all_blank(Slice(line, 35, 39)))),
                       start_timing |-> OrNone(PyFloat(remove_all_blank(Slice(line, 39, 47)))),
                       race_time |-> OrNone(RaceTime(line))]]

BoatRow ==
    /\ InLoop /\ Branch(fr, each_line) = "boat_row"
    /\ LET d == DecodeBoat(db, fr, each_line) IN
       fr' = IF d.exc # "" THEN Raise(fr, d.exc)
             ELSE Continue([fr EXCEPT !.each_boat_data_list = Some(Append(Val(@), d.dict))])
    /\ UNCHANGED <<db, file, result_content, rvars, xvars>>

\* 152-160: the blank line that ends the refund rows: the race is created
\* and committed, and kept with its boat rows for the end of the call.
RefundBlank ==
    /\ InLoop /\ Branch(fr, each_line) = "refund_blank"
    /\ LET f1 == [fr EXCEPT !.is_refund_data = FALSE]
           r == create_and_get(db, Val(fr.each_race_results_dict)) IN
       IF fr.is_no_game
       THEN fr' = Continue(f1) /\ UNCHANGED db
       ELSE /\ db' = r.db
            /\ fr' = IF r.exc # "" THEN Raise(f1, r.exc)
                     ELSE Continue([f1 EXCEPT !.each_boat_result_list =
                                       Append(@, [each_race |-> r.id,
                                                  each_boat_data |-> Val(fr.each_boat_data_list)])])
    /\ UNCHANGED <<file, result_content, rvars, xvars>>

\* A variant of StoreRefund that files every continuation line under
\* boxed_quinella_refund2.
StoreRefundSecondOnly(dict, line, refund) ==
    LET label == remove_all_blank(Slice(line, 0, 12))
    IN CASE label = FUKUSHO -> SetKey(dict, "place_refund1", refund)
         [] label = NIRENTAN -> SetKey(dict, "perfecta_refund", refund)
         [] label = NIRENFUKU -> SetKey(dict, "quinella_refund", refund)
         [] label = KAKURENFUKU -> SetKey(dict, "boxed_quinella_refund1", refund)
         [] label = SANRENTAN -> SetKey(dict, "trifecta_refund", refund)
         [] label = SANRENFUKU -> SetKey(dict, "boxed_trifecta_refund", refund)
         [] OTHER -> SetKey(dict, "boxed_quinella_refund2", refund)

\* 172-192: where the payout of a refund line goes.
StoreRefund(dict, line, refund) ==
    LET label == remove_all_blank(Slice(line, 0, 12))
        second == PyInt(remove_all_blank(SliceFrom(line, 33)))
    IN CASE label = FUKUSHO ->
                LET d1 == SetKey(dict, "place_refund1", refund) IN
                IF second.ok THEN SetKey(d1, "place_refund2", Some(second.v)) ELSE d1
         [] label = NIRENTAN -> SetKey(dict, "perfecta_refund", refund)
         [] label = NIRENFUKU -> SetKey(dict, "quinella_refund", refund)
         [] label = KAKURENFUKU -> SetKey(dict, "boxed_quinella_refund1", refund)
         [] label = SANRENTAN -> SetKey(dict, "trifecta_refund", refund)
         [] label = SANRENFUKU -> SetKey(dict, "boxed_trifecta_refund", refund)
         [] OTHER ->
                IF "boxed_quinella_refund2" \notin DOMAIN dict
                THEN SetKey(dict, "boxed_quinella_refund2", refund)
                ELSE IF "boxed_quinella_refund3" \notin DOMAIN dict
                THEN SetKey(dict, "boxed_quinella_refund3", refund)
                ELSE dict

\* 162-194: a refund line after the win line.
RefundRow ==
    /\ InLoop /\ Branch(fr, each_line) = "refund_line"
    /\ LET refund == RefundOf(each_line) IN
       fr' = IF ~refund.ok THEN Raise(fr, "ValueError")
             ELSE Continue([fr EXCEPT !.each_race_results_dict =
                                 Some(StoreRefund(Val(@), each_line, refund.v))])
    /\ UNCHANGED <<db, file, result_content, rvars, xvars>>

\* A line no branch takes.
Skip ==
    /\ InLoop /\ Branch(fr, each_line) = "skip"
    /\ fr' = Continue(fr)
    /\ UNCHANGED <<db, file, result_content, rvars, xvars>>

\* 196-201: every boat row of every race kept, in order, with its race.
BoatRowsToAdd(results) ==
    Flatten([n \in 1..Len(results) |->
                [k \in 1..Len(results[n].each_boat_data) |->
                    results[n].each_boat_data[k] @@ [each_race_result |-> results[n].each_race]]])

\* 196-205: after the last line the boat rows are added and committed.
AddBoatRows ==
    /\ fr.pc = "loop" /\ fr.i = Len(result_content)
    /\ LET rows == BoatRowsToAdd(fr.each_boat_result_list)
           base == Cardinality(db.each_boat_data) IN
       db' = [db EXCEPT !.each_boat_data =
                 @ \cup {rows[k] @@ [id |-> base + k] : k \in 1..Len(rows)}]
    /\ fr' = [fr EXCEPT !.pc = "done"]
    /\ UNCHANGED <<file, result_content, rvars, xvars>>

vars == <<db, wk, calls, returned, file, result_content, fr, pm, bt, tr>>

Next ==
    \/ NoGame \/ Kbgn \/ StadiumName \/ Separator \/ Win \/ Kend
    \/ BoatBlank \/ BoatRow \/ RefundBlank \/ RefundRow \/ Skip \/ AddBoatRows
Spec == Init /\ [][Next]_vars


NextSeq == \E w \in Workers : BeginSeq(w) \/ Query(w) \/ Add(w) \/ Commit(w) \/ Return(w)
SpecSeq == InitResolver /\ [][NextSeq]_vars

NextConc == \E w \in Workers : BeginConc(w) \/ Query(w) \/ Add(w) \/ Commit(w) \/ Return(w)
SpecConc == InitResolver /\ [][NextConc]_vars

(***************************************************************************)
(* register_race_param_for_db: the parameter file, one line per step, then *)
(* the ten transactions, one per step.                                     *)
(***************************************************************************)
PARAM_SEPARATOR_LINE == [k \in 1..79 |-> "-"]
BBGN == <<"B", "B", "G", "N">>
BEND == <<"B", "E", "N", "D">>

MaxRows == 2        \* boat rows in a parameter file

\* The boat rows of the parameter files: a player, a motor and its 2nd-place
\* rate vary, the other columns are fixed.
RowPlayers == {<<"4", "3", "2", "0">>, <<"4", "3", "2", "1">>}
RowMotors == {<<"1", "1">>, <<"1", "2">>}
RowRates == {<<"0", ".", "0", "0">>, <<"3", "5", ".", "5", "0">>}
\* A race table has two separator lines, above and below its head line; one
\* row is also given a table closed by a third.
ParamRows ==
    [player : RowPlayers, motor : RowMotors, motor_rate : RowRates, seps : {2}]
    \cup {[player |-> <<"4", "3", "2", "0">>, motor |-> <<"1", "1">>,
           motor_rate |-> <<"3", "5", ".", "5", "0">>, seps |-> 3]}
ParamFiles == UNION {[1..n -> ParamRows] : n \in 0..MaxRows}

\* Boat row: player 2-6, name 6-10, age 10-12, branch 12-14, weight 14-16,
\* rank 16-18, national rates 18-23 and 23-29, local rates 29-35 and 35-41,
\* motor 41-44 and its rate 44-50, boat 50-53 and its rate 53-59.
ParamRowLine(b) ==
    <<"1", " ">> \o b.player \o <<"NA", "MAE", "IDSP", "IDSP">> \o <<"3", "0">>
    \o <<"TOKU", "YAMA">> \o <<"5", "2">> \o <<"A", "1">>
    \o PadL(<<"5", ".", "5", "0">>, 5) \o PadL(<<"3", "0", ".", "0", "0">>, 6)
    \o PadL(<<"6", ".", "1", "0">>, 6) \o PadL(<<"4", "0", ".", "0", "0">>, 6)
    \o PadL(b.motor, 3) \o PadL(b.motor_rate, 6)
    \o PadL(<<"3", "1">>, 3) \o PadL(<<"3", "0", ".", "0", "0">>, 6) \o <<" ", "NL">>
BbgnLine == <<"1", "8">> \o BBGN \o <<"NL">>
BendLine == <<"1", "8">> \o BEND \o <<"NL">>
\* The line after BBGN: the stadium name in columns 6-9.
ParamNameLine ==
    <<"BO", "-w", "TO", "RE", "-w", "SU">> \o <<"TOKU", "IDSP", "YAMA">> \o <<"NL">>
ParamHeadLine == <<"TEI", " ", "SEN", "SHU", "NL">>
\* Every boat row stands in the table of a race of its own: the boat rows
\* follow the second separator line and end at a blank line, those of the
\* last race at the BEND line.
ParamRaceLines(b, last) ==
    <<PARAM_SEPARATOR_LINE \o <<"NL">>, ParamHeadLine, PARAM_SEPARATOR_LINE \o <<"NL">>,
      ParamRowLine(b)>>
    \o (IF b.seps = 3 THEN <<PARAM_SEPARATOR_LINE \o <<"NL">>>> ELSE <<>>)
    \o (IF last THEN <<>> ELSE <<BLANK_LINE>>)
ParamLines(f) ==
    <<BbgnLine, ParamNameLine>>
    \o Flatten([n \in 1..Len(f) |-> ParamRaceLines(f[n], n = Len(f))])
    \o <<BendLine>>

\* float(...) == 0
FloatIsZero(v) == v[1] = 0 /\ \A k \in 1..Len(v[2]) : v[2][k] = "0"

InitParamFrame(content) ==
    [pc |-> "loop", exc |-> "", param_content_list |-> content, i |-> 0,
     is_stadium |-> FALSE, is_each_boat_info |-> FALSE, separator_line_count |-> 0,
     stadium_id |-> None, stadium |-> None,
     player_dict |-> <<>>, player_rank_list |-> <<>>, player_branch_list |-> <<>>,
     player_data_dict |-> <<>>, player_national_win_rate_dict |-> <<>>,
     player_local_win_rate_dict |-> <<>>, motor_dict |-> <<>>, boat_dict |-> <<>>]

\* The stores the call starts on: an empty one, one that holds the players
\* of the files, and one that holds a motor and a boat of stadium 18 as well.
PlayersDb ==
    [EmptyDb EXCEPT
        !.stadium = {StadiumInit(18, <<"TOKU", "YAMA">>).row},
        !.player = {[id |-> 4320], [id |-> 4321]}]
MotorsDb ==
    [PlayersDb EXCEPT
        !.motor = {[id |-> 1, motor_number |-> 11, stadium |-> 18]},
        !.boat = {[id |-> 1, boat_number |-> 31, stadium |-> 18]}]

InitParam ==
    /\ db \in {EmptyDb, PlayersDb, MotorsDb}
    /\ \E f \in ParamFiles : pm = InitParamFrame(ParamLines(f))
    /\ wk = [w \in Workers |-> Idle]
    /\ calls = 0
    /\ returned = [a \in {<<c[1], c[2]>> : c \in CallArgs} |-> <<>>]
    /\ file = <<>>
    /\ result_content = <<>>
    /\ fr = [pc |-> "none"]
    /\ bt = [pc |-> "none"]
    /\ tr = [pc |-> "none"]

param_line == pm.param_content_list[pm.i + 1]
InParamLoop == pm.pc = "loop" /\ pm.i < Len(pm.param_content_list)
ParamRaise(f, e) == [f EXCEPT !.pc = "raised", !.exc = e]
ParamContinue(f) == [f EXCEPT !.i = @ + 1]
\* Everything but the store and the frame of the call.
nonparam == <<wk, calls, returned, file, result_content, fr, bt, tr>>

\* The branch of the loop body a line takes: the tests in the order of the code.
ParamBranch(f, line) ==
    IF Contains(line, BBGN) THEN "bbgn"
    ELSE IF f.is_stadium THEN "stadium"
    ELSE IF Contains(line, PARAM_SEPARATOR_LINE) THEN "separator"
    ELSE IF ~f.is_each_boat_info THEN "skip"
    ELSE IF line = BLANK_LINE THEN "blank"
    ELSE IF Contains(line, BEND) THEN "bend"
    ELSE "boat_row"

\* 258-261
ParamBbgn ==
    /\ InParamLoop /\ ParamBranch(pm, param_line) = "bbgn"
    /\ LET code == PyInt(Slice(param_line, 0, 2))
           f1 == [pm EXCEPT !.is_stadium = TRUE] IN
       pm' = IF code.ok THEN ParamContinue([f1 EXCEPT !.stadium_id = Some(code.v)])
             ELSE ParamRaise(f1, "ValueError")
    /\ UNCHANGED <<db, nonparam>>

\* 263-267
ParamStadiumName ==
    /\ InParamLoop /\ ParamBranch(pm, param_line) = "stadium"
    /\ LET stadium_name == remove_all_blank(Slice(param_line, 6, 9))
           r == GetOrCreate(db, "stadium", Val(pm.stadium_id), stadium_name) IN
       /\ db' = r.db
       /\ pm' = IF r.exc # "" THEN ParamRaise(pm, r.exc)
                ELSE ParamContinue([pm EXCEPT !.stadium = Some(r.id), !.is_stadium = FALSE])
    /\ UNCHANGED nonparam

\* 269-275
ParamSeparator ==
    /\ InParamLoop /\ ParamBranch(pm, param_line) = "separator"
    /\ pm' = ParamContinue(
                IF pm.separator_line_count + 1 = 2
                THEN [pm EXCEPT !.is_each_boat_info = TRUE, !.separator_line_count = 0]
                ELSE [pm EXCEPT !.separator_line_count = @ + 1])
    /\ UNCHANGED <<db, nonparam>>

\* 277-278
ParamSkip ==
    /\ InParamLoop /\ ParamBranch(pm, param_line) = "skip"
    /\ pm' = ParamContinue(pm)
    /\ UNCHANGED <<db, nonparam>>

\* 280-282
ParamBlank ==
    /\ InParamLoop /\ ParamBranch(pm, param_line) = "blank"
    /\ pm' = ParamContinue([pm EXCEPT !.is_each_boat_info = FALSE])
    /\ UNCHANGED <<db, nonparam>>

\* 283-286
ParamBend ==
    /\ InParamLoop /\ ParamBranch(pm, param_line) = "bend"
    /\ pm' = ParamContinue([pm EXCEPT !.is_stadium = FALSE, !.is_each_boat_info = FALSE])
    /\ UNCHANGED <<db, nonparam>>


\* 288-330: one boat row is decoded and appended to the lists.
DecodeParamRow(f, line) ==
    LET player_id == PyInt(remove_all_blank(Slice(line, 2, 6)))
        player_name == remove_all_blank(Slice(line, 6, 10))
        player_rank == remove_all_blank(Slice(line, 16, 18))
        player_branch == remove_all_blank(Slice(line, 12, 14))
        player_age == PyInt(remove_all_blank(Slice(line, 10, 12)))
        player_weight == PyInt(remove_all_blank(Slice(line, 14, 16)))
        national_win == PyFloat(remove_all_blank(Slice(line, 18, 23)))
        national_top2 == PyFloat(remove_all_blank(Slice(line, 23, 29)))
        local_win == PyFloat(remove_all_blank(Slice(line, 29, 35)))
        local_top2 == PyFloat(remove_all_blank(Slice(line, 35, 41)))
        motor_number == PyInt(remove_all_blank(Slice(line, 41, 44)))
        motor_rate == PyFloat(remove_all_blank(Slice(line, 44, 50)))
        boat_number == PyInt(remove_all_blank(Slice(line, 50, 53)))
        boat_rate == PyFloat(remove_all_blank(Slice(line, 53, 59)))
        ok == /\ player_id.ok /\ player_age.ok /\ player_weight.ok
              /\ national_win.ok /\ national_top2.ok /\ local_win.ok /\ local_top2.ok
              /\ motor_number.ok /\ motor_rate.ok /\ boat_number.ok /\ boat_rate.ok
    IN IF ~ok THEN ParamRaise(f, "ValueError")
       ELSE IF IsNone(f.stadium) THEN ParamRaise(f, "UnboundLocalError")
       ELSE ParamContinue(
         [f EXCEPT
            !.player_dict =
                IF \E k \in 1..Len(@) : @[k].player_id = player_id.v THEN @
                ELSE Append(@, [player_id |-> player_id.v, player_name |-> player_name]),
            !.player_rank_list =
                IF \E k \in 1..Len(@) : @[k] = player_rank THEN @ ELSE Append(@, player_rank),
            !.player_branch_list =
                IF \E k \in 1..Len(@) : @[k] = player_branch THEN @ ELSE Append(@, player_branch),
            !.player_data_dict =
                Append(@, [player_id |-> player_id.v, date |-> RaceDate,
                           player_age |-> player_age.v, player_weight |-> player_weight.v,
                           branch_name |-> player_branch, rank_name |-> player_rank]),
            !.player_national_win_rate_dict =
                Append(@, [player_id |-> player_id.v, date |-> RaceDate,
                           player_national_win_rate |-> national_win.v,
                           player_national_top2finish_rate |-> national_top2.v]),
            !.player_local_win_rate_dict =
                Append(@, [player_id |-> player_id.v, date |-> RaceDate,
                           stadium |-> Val(f.stadium),
                           player_local_win_rate |-> local_win.v,
                           player_local_top2finish_rate |-> local_top2.v]),
            !.motor_dict =
                Append(@, [motor_number |-> motor_number.v, stadium |-> Val(f.stadium),
                           motor_top2finish_rate |-> motor_rate.v]),
            !.boat_dict =
                Append(@, [boat_number |-> boat_number.v, stadium |-> Val(f.stadium),
                           boat_top2finish_rate |-> boat_rate.v])])

ParamBoatRow ==
    /\ InParamLoop /\ ParamBranch(pm, param_line) = "boat_row"
    /\ pm' = DecodeParamRow(pm, param_line)
    /\ UNCHANGED <<db, nonparam>>

\* 257, 333: after the last line the transactions start.
ParamLoopEnd ==
    /\ pm.pc = "loop" /\ pm.i = Len(pm.param_content_list)
    /\ pm' = [pm EXCEPT !.pc = "players"]
    /\ UNCHANGED <<db, nonparam>>

(***************************************************************************)
(* The transactions.  The session is made with autoflush = False: a query  *)
(* reads the rows of the store, not the objects added since the last       *)
(* commit; the commit at the end of the with block inserts them all.       *)
(***************************************************************************)
\* The objects a loop adds: new[n] for every pass n of the loop whose query
\* found nothing (miss[n]).
Added(miss, new) ==
    LET a[n \in 0..Len(miss)] ==
            IF n = 0 THEN <<>>
            ELSE IF miss[n] THEN Append(a[n - 1], new[n]) ELSE a[n - 1]
    IN a[Len(miss)]

\* session.commit(): the added objects are inserted in order, ids generated.
Flushed(rows, added) ==
    rows \cup {added[k] @@ [id |-> Cardinality(rows) + k] : k \in 1..Len(added)}

\* one_or_none() raises when the query matches several rows.
Several(found) == \E k \in 1..Len(found) : Cardinality(found[k]) > 1

\* A transaction whose except branch does not roll back: what was added
\* before the exception stays in the session and reaches the store.
TransactNoRollback(table, next, exc, added) ==
    /\ pm' = IF exc # "" THEN ParamRaise(pm, exc) ELSE [pm EXCEPT !.pc = next]
    /\ db' = [db EXCEPT ![table] = Flushed(@, added)]

\* with transaction(session): the body, then commit; an exception rolls back
\* and leaves the call.
Transact(table, next, exc, added) ==
    IF exc # ""
    THEN /\ pm' = ParamRaise(pm, exc)
         /\ UNCHANGED db
    ELSE /\ pm' = [pm EXCEPT !.pc = next]
         /\ db' = [db EXCEPT ![table] = Flushed(@, added)]

\* Player(id, name, age, stadium_id, weight, rank, four rates): ten parameters,
\* none with a default.
PlayerParams == 10
PlayerInit(args) == IF Len(args) = PlayerParams THEN "" ELSE "TypeError"

\* 333-340
ParamPlayers ==
    /\ pm.pc = "players"
    /\ LET Match(e) == {r \in db.player : r.id = e.player_id}
           missing == \E k \in 1..Len(pm.player_dict) : Match(pm.player_dict[k]) = {}
       IN Transact("player", "ranks",
                   IF missing THEN PlayerInit(<<"player_id", "player_name">>) ELSE "", <<>>)
    /\ UNCHANGED nonparam

\* 342-347
ParamRanks ==
    /\ pm.pc = "ranks"
    /\ LET Match(e) == {r \in db.rank : r.rank_name = e}
           New(e) == [rank_name |-> e]
           Miss(e) == Match(e) = {}
       IN Transact("rank", "branches",
                   IF Several([n \in DOMAIN pm.player_rank_list |-> Match(pm.player_rank_list[n])]) THEN "MultipleResultsFound" ELSE "",
                   Added([n \in DOMAIN pm.player_rank_list |-> Miss(pm.player_rank_list[n])], [n \in DOMAIN pm.player_rank_list |-> New(pm.player_rank_list[n])]))
    /\ UNCHANGED nonparam

\* 349-354
ParamBranches ==
    /\ pm.pc = "branches"
    /\ LET Match(e) == {r \in db.branch : r.branch_name = e}
           New(e) == [branch_name |-> e]
           Miss(e) == Match(e) = {}
       IN Transact("branch", "player_data",
                   IF Several([n \in DOMAIN pm.player_branch_list |-> Match(pm.player_branch_list[n])]) THEN "MultipleResultsFound" ELSE "",
                   Added([n \in DOMAIN pm.player_branch_list |-> Miss(pm.player_branch_list[n])], [n \in DOMAIN pm.player_branch_list |-> New(pm.player_branch_list[n])]))
    /\ UNCHANGED nonparam

\* .one_or_none() of a query by name or id, as None or the id of the row.
OneOf(rows) == IF rows = {} THEN None ELSE Some((CHOOSE r \in rows : TRUE).id)

\* 356-367
ParamPlayerData ==
    /\ pm.pc = "player_data"
    /\ LET Player(e) == OneOf({r \in db.player : r.id = e.player_id})
           BranchOf(e) == {r \in db.branch : r.branch_name = e.branch_name}
           RankOf(e) == {r \in db.rank : r.rank_name = e.rank_name}
           Match(e) == {r \in db.player_data : r.player = Player(e) /\ r.date = e.date}
           New(e) == [player |-> Player(e), date |-> e.date, age |-> e.player_age,
                      weight |-> e.player_weight, branch |-> OneOf(BranchOf(e)),
                      rank |-> OneOf(RankOf(e))]
           Miss(e) == Match(e) = {}
       IN Transact("player_data", "national",
                   IF \/ Several([n \in DOMAIN pm.player_data_dict |-> Match(pm.player_data_dict[n])])
                      \/ Several([n \in DOMAIN pm.player_data_dict |-> BranchOf(pm.player_data_dict[n])])
                      \/ Several([n \in DOMAIN pm.player_data_dict |-> RankOf(pm.player_data_dict[n])])
                   THEN "MultipleResultsFound" ELSE "",
                   Added([n \in DOMAIN pm.player_data_dict |-> Miss(pm.player_data_dict[n])], [n \in DOMAIN pm.player_data_dict |-> New(pm.player_data_dict[n])]))
    /\ UNCHANGED nonparam

\* 369-378
ParamNational ==
    /\ pm.pc = "national"
    /\ LET Player(e) == OneOf({r \in db.player : r.id = e.player_id})
           Match(e) == {r \in db.player_national_win_rate :
                           r.player = Player(e) /\ r.race_date = e.date}
           New(e) == [player |-> Player(e), race_date |-> e.date,
                      latest_win_rate |-> e.player_national_win_rate,
                      latest_top2finish_rate |-> e.player_national_top2finish_rate]
           Miss(e) == Match(e) = {}
       IN Transact("player_national_win_rate", "local",
                   IF Several([n \in DOMAIN pm.player_national_win_rate_dict |-> Match(pm.player_national_win_rate_dict[n])])
                   THEN "MultipleResultsFound" ELSE "",
                   Added([n \in DOMAIN pm.player_national_win_rate_dict |-> Miss(pm.player_national_win_rate_dict[n])], [n \in DOMAIN pm.player_national_win_rate_dict |-> New(pm.player_national_win_rate_dict[n])]))
    /\ UNCHANGED nonparam

\* 380-390: the query is by player and date, not by stadium.
ParamLocal ==
    /\ pm.pc = "local"
    /\ LET Player(e) == OneOf({r \in db.player : r.id = e.player_id})
           Match(e) == {r \in db.player_local_win_rate :
                           r.player = Player(e) /\ r.race_date = e.date}
           New(e) == [player |-> Player(e), stadium |-> e.stadium, race_date |-> e.date,
                      latest_win_rate |-> e.player_local_win_rate,
                      latest_top2finish_rate |-> e.player_local_top2finish_rate]
           Miss(e) == Match(e) = {}
       IN Transact("player_local_win_rate", "motors",
                   IF Several([n \in DOMAIN pm.player_local_win_rate_dict |-> Match(pm.player_local_win_rate_dict[n])])
                   THEN "MultipleResultsFound" ELSE "",
                   Added([n \in DOMAIN pm.player_local_win_rate_dict |-> Miss(pm.player_local_win_rate_dict[n])], [n \in DOMAIN pm.player_local_win_rate_dict |-> New(pm.player_local_win_rate_dict[n])]))
    /\ UNCHANGED nonparam

\* 392-399
ParamMotors ==
    /\ pm.pc = "motors"
    /\ LET New(e) == [motor_number |-> e.motor_number, stadium |-> e.stadium]
           Miss(e) == \/ IsNone(motor_get(db, e.motor_number, e.stadium))
                      \/ FloatIsZero(e.motor_top2finish_rate)
       IN Transact("motor", "motor_rates", "", Added([n \in DOMAIN pm.motor_dict |-> Miss(pm.motor_dict[n])], [n \in DOMAIN pm.motor_dict |-> New(pm.motor_dict[n])]))
    /\ UNCHANGED nonparam

\* 401-409
ParamMotorRates ==
    /\ pm.pc = "motor_rates"
    /\ LET Motor(e) == motor_get(db, e.motor_number, e.stadium)
           New(e) == [motor |-> Motor(e), date |-> RaceDate,
                      latest_top2finish_rate |-> e.motor_top2finish_rate]
           Miss(e) == ~\E r \in db.motor_top2finish_rate :
                          r.motor = Motor(e) /\ r.date = RaceDate
       IN Transact("motor_top2finish_rate", "boats", "", Added([n \in DOMAIN pm.motor_dict |-> Miss(pm.motor_dict[n])], [n \in DOMAIN pm.motor_dict |-> New(pm.motor_dict[n])]))
    /\ UNCHANGED nonparam

\* 412-419
ParamBoats ==
    /\ pm.pc = "boats"
    /\ LET New(e) == [boat_number |-> e.boat_number, stadium |-> e.stadium]
           Miss(e) == \/ IsNone(boat_get(db, e.boat_number, e.stadium))
                      \/ FloatIsZero(e.boat_top2finish_rate)
       IN Transact("boat", "boat_rates", "", Added([n \in DOMAIN pm.boat_dict |-> Miss(pm.boat_dict[n])], [n \in DOMAIN pm.boat_dict |-> New(pm.boat_dict[n])]))
    /\ UNCHANGED nonparam

\* 421-429: BoatTop2finishRate.__init__ stores the Boat object in the integer
\* column boat_id and the date in an attribute that is no column, so the
\* query never finds a row and the INSERT of the commit fails on the object.
ParamBoatRates ==
    /\ pm.pc = "boat_rates"
    /\ LET New(e) == [boat_id |-> boat_get(db, e.boat_number, e.stadium), date |-> None,
                      latest_top2finish_rate |-> e.boat_top2finish_rate]
           Miss(e) == ~\E r \in db.boat_top2finish_rate :
                          r.boat_id = boat_get(db, e.boat_number, e.stadium) /\ r.date = RaceDate
           added == Added([n \in DOMAIN pm.boat_dict |-> Miss(pm.boat_dict[n])], [n \in DOMAIN pm.boat_dict |-> New(pm.boat_dict[n])])
       IN Transact("boat_top2finish_rate", "done",
                   IF added # <<>> THEN "InterfaceError" ELSE "", added)
    /\ UNCHANGED nonparam

NextParam ==
    \/ ParamBbgn \/ ParamStadiumName \/ ParamSeparator \/ ParamSkip \/ ParamBlank
    \/ ParamBend \/ ParamBoatRow \/ ParamLoopEnd
    \/ ParamPlayers \/ ParamRanks \/ ParamBranches \/ ParamPlayerData \/ ParamNational
    \/ ParamLocal \/ ParamMotors \/ ParamMotorRates \/ ParamBoats \/ ParamBoatRates
SpecParam == InitParam /\ [][NextParam]_vars

(***************************************************************************)
(* __main__: the batch over the result files                               *)
(***************************************************************************)

\* The most result files one run is given.
MaxFiles == 2
\* file_list[0:100]
FileLimit == 100
\* The with-blocks of register_race_param_for_db, each ending in a commit.
ParamTransactions == 10

\* The days the files of the directory are named after; the last one is a
\* name whose month is no month.
BatchDates == {<<2024, 1, 1>>, <<2024, 1, 2>>, <<2024, 13, 1>>}
DigitChars == <<"0", "1", "2", "3", "4", "5", "6", "7", "8", "9">>
TwoDigits(n) == <<DigitChars[(n \div 10) + 1], DigitChars[(n % 10) + 1]>>
\* The stem of the result file of a day: k, then yymmdd.
StemOf(d) == <<"k">> \o TwoDigits(d[1] % 100) \o TwoDigits(d[2]) \o TwoDigits(d[3])

\* How a call of register_race_param_for_db ends: the commits it made and
\* the exception it left with ("" when it returns).
ParamOutcomes ==
    {[committed |-> 0, exc |-> "ValueError"],
     [committed |-> 0, exc |-> "TypeError"],
     [committed |-> ParamTransactions - 1, exc |-> "InterfaceError"],
     [committed |-> ParamTransactions, exc |-> ""]}
\* How a call of register_race_result_for_db ends.
ResultOutcomes == {"", "ValueError"}

\* One result file of the directory with what belongs to it: the day it was
\* named after, its stem, whether race_parameters holds the file of the same
\* day, and how the two calls end on the contents.
BatchFiles ==
    {[day |-> d, stem |-> StemOf(d), has_param |-> h, param |-> po, result |-> ro] :
        d \in BatchDates, h \in BOOLEAN, po \in ParamOutcomes, ro \in ResultOutcomes}
\* What glob can list: files of different names, in any order.
FileLists ==
    {l \in UNION {[1..n -> BatchFiles] : n \in 0..MaxFiles} :
        \A a, b \in DOMAIN l : a # b => l[a].stem # l[b].stem}

\* dt.date(year, month, day) accepts the days of the calendar only.
DaysIn(y, m) ==
    IF m = 2 THEN (IF y % 4 = 0 /\ (y % 100 # 0 \/ y % 400 = 0) THEN 29 ELSE 28)
    ELSE IF m \in {4, 6, 9, 11} THEN 30 ELSE 31
DateValid(y, m, d) == y \in 1..9999 /\ m \in 1..12 /\ d \in 1..DaysIn(y, m)

\* A date that takes the day first: not what the entry point computes.
ThisRaceDateDayFirst(file_name) ==
    LET yy == PyInt(Slice(file_name, 1, 3))
        mm == PyInt(Slice(file_name, 5, 7))
        dd == PyInt(Slice(file_name, 3, 5))
        ok == yy.ok /\ mm.ok /\ dd.ok /\ DateValid(yy.v + 2000, mm.v, dd.v)
    IN [ok |-> ok, v |-> IF ok THEN <<yy.v + 2000, mm.v, dd.v>> ELSE <<>>]

\* this_race_date: [ok |-> FALSE] stands for the ValueError of int or of date.
ThisRaceDate(file_name) ==
    LET yy == PyInt(Slice(file_name, 1, 3))
        mm == PyInt(Slice(file_name, 3, 5))
        dd == PyInt(Slice(file_name, 5, 7))
        ok == yy.ok /\ mm.ok /\ dd.ok /\ DateValid(yy.v + 2000, mm.v, dd.v)
    IN [ok |-> ok, v |-> IF ok THEN <<yy.v + 2000, mm.v, dd.v>> ELSE <<>>]

\* The stem of the parameter file the entry point opens.
ParamStem(file_name) == <<"b">> \o SliceFrom(file_name, 1)

InitBatchFrame(files) ==
    [pc |-> "for", files |-> files, file_list |-> Slice(files, 0, FileLimit), k |-> 0,
     file_name |-> <<>>, this_race_date |-> None, opened |-> <<>>, log |-> <<>>, exc |-> ""]

InitBatch ==
    /\ db = EmptyDb
    /\ \E l \in FileLists : bt = InitBatchFrame(l)
    /\ wk = [w \in Workers |-> Idle]
    /\ calls = 0
    /\ returned = [a \in {<<c[1], c[2]>> : c \in CallArgs} |-> <<>>]
    /\ file = <<>>
    /\ result_content = <<>>
    /\ fr = [pc |-> "none"]
    /\ pm = [pc |-> "none"]
    /\ tr = [pc |-> "none"]

nonbatch == <<db, wk, calls, returned, file, result_content, fr, pm, tr>>
target_file == bt.file_list[bt.k + 1]
\* An exception nothing catches ends the run.
BatchDie(b, e) == [b EXCEPT !.pc = "dead", !.exc = e]

\* for target_file in file_list[0:100]: the result file is read.
BatchOpenResult ==
    /\ bt.pc = "for" /\ bt.k < Len(bt.file_list)
    /\ bt' = [bt EXCEPT !.pc = "date", !.file_name = target_file.stem]
    /\ UNCHANGED nonbatch

\* this_race_date = dt.date(...)
BatchDate ==
    /\ bt.pc = "date"
    /\ LET d == ThisRaceDate(bt.file_name) IN
       bt' = IF d.ok THEN [bt EXCEPT !.pc = "open_param", !.this_race_date = Some(d.v)]
             ELSE BatchDie(bt, "ValueError")
    /\ UNCHANGED nonbatch

\* open(param_file): the file of the same day, if race_parameters has it.
BatchOpenParam ==
    /\ bt.pc = "open_param"
    /\ bt' = IF target_file.has_param
             THEN [bt EXCEPT !.pc = "param", !.opened = Append(@, ParamStem(bt.file_name))]
             ELSE BatchDie(bt, "FileNotFoundError")
    /\ UNCHANGED nonbatch

\* register_race_param_for_db(this_race_date, param_content), to its end.
BatchParam ==
    /\ bt.pc = "param"
    /\ LET o == target_file.param
           e == [op |-> "param", file |-> bt.k + 1, date |-> Val(bt.this_race_date),
                 committed |-> o.committed, returned |-> o.exc = ""]
           b == [bt EXCEPT !.log = Append(@, e)]
       IN bt' = IF o.exc = "" THEN [b EXCEPT !.pc = "result"] ELSE BatchDie(b, o.exc)
    /\ UNCHANGED nonbatch

\* register_race_result_for_db(this_race_date, result_content), to its end.
BatchResult ==
    /\ bt.pc = "result"
    /\ LET o == target_file.result
           e == [op |-> "result", file |-> bt.k + 1, date |-> Val(bt.this_race_date),
                 committed |-> 0, returned |-> o = ""]
           b == [bt EXCEPT !.log = Append(@, e)]
       IN bt' = IF o = "" THEN [b EXCEPT !.pc = "for", !.k = @ + 1] ELSE BatchDie(b, o)
    /\ UNCHANGED nonbatch

\* The list is exhausted: the script ends.
BatchEnd ==
    /\ bt.pc = "for" /\ bt.k = Len(bt.file_list)
    /\ bt' = [bt EXCEPT !.pc = "finished"]
    /\ UNCHANGED nonbatch

NextBatch ==
    \/ BatchOpenResult \/ BatchDate \/ BatchOpenParam \/ BatchParam \/ BatchResult
    \/ BatchEnd
SpecBatch == InitBatch /\ [][NextBatch]_vars

(***************************************************************************)
(* src/backend/services/training_service.py: one training generator, run   *)
(* by the event loop from one suspension point (a yield or an await) to    *)
(* the next, and cancel_task, which the loop may run at any of them.       *)
(***************************************************************************)

\* range(5): the passes of the progress loop.
TrainSteps == 5
TrainKinds == {"lightgbm", "transformer", "bayesian"}
\* parameters.get("epochs", 50) of a transformer request.
EpochChoices == {0, 2, 50}
\* The task of the generator, and another id a client may send.
TaskIds == {"t1", "t2"}
TaskId == "t1"

\* range(5), and range(min(5, epochs)) of train_transformer.
StepsOf(kind, epochs) == IF kind = "transformer" THEN Min({TrainSteps, epochs}) ELSE TrainSteps

InitTrainFrame(kind, epochs) ==
    [pc |-> "new", kind |-> kind, steps |-> StepsOf(kind, epochs), i |-> 0,
     active_tasks |-> [t \in TaskIds |-> "absent"],
     out |-> <<>>, cancelled |-> FALSE, late |-> FALSE]

InitTrain ==
    /\ \E kind \in TrainKinds, epochs \in EpochChoices : tr = InitTrainFrame(kind, epochs)
    /\ db = EmptyDb
    /\ wk = [w \in Workers |-> Idle]
    /\ calls = 0
    /\ returned = [a \in {<<c[1], c[2]>> : c \in CallArgs} |-> <<>>]
    /\ file = <<>>
    /\ result_content = <<>>
    /\ fr = [pc |-> "none"]
    /\ pm = [pc |-> "none"]
    /\ bt = [pc |-> "none"]

nontrain == <<db, wk, calls, returned, file, result_content, fr, pm, bt>>

\* yield TrainingProgress(status=..., current_step=...): the generator is
\* suspended at pc until the consumer asks for the next item.
Yield(t, status, step, pc) == [t EXCEPT !.out = Append(@, <<status, step>>), !.pc = pc]
\* except Exception: yield the 'failed' progress of an error.
TrainFail(t) == Yield(t, "failed", "error", "error")

\* self.active_tasks[task_id] = True; yield 'starting'.
TrainRegister ==
    /\ tr.pc = "new"
    /\ tr' = Yield([tr EXCEPT !.active_tasks[TaskId] = "True"], "starting", "init", "starting")
    /\ UNCHANGED nontrain

\* From the 'starting' yield to the yield of progress 0.3: sleep, yield,
\* the data is read (which may raise), sleep, yield.
TrainPrepare ==
    /\ tr.pc \in {"starting", "sleep1", "loading", "reading", "sleep2"}
    /\ \E ok \in BOOLEAN :
        tr' = CASE tr.pc = "starting" -> [tr EXCEPT !.pc = "sleep1"]
                [] tr.pc = "sleep1" -> Yield(tr, "running", "loading", "loading")
                [] tr.pc = "loading" ->
                      IF tr.kind = "lightgbm"
                      THEN (IF ok THEN [tr EXCEPT !.pc = "sleep2"] ELSE TrainFail(tr))
                      ELSE [tr EXCEPT !.pc = "reading"]
                [] tr.pc = "reading" -> IF ok THEN [tr EXCEPT !.pc = "sleep2"] ELSE TrainFail(tr)
                [] tr.pc = "sleep2" -> Yield(tr, "running", "training", "loop")
    /\ UNCHANGED nontrain

\* self.active_tasks.get(task_id, False)
ActiveGet(t) == t.active_tasks[TaskId] = "True"

\* The head of a pass of the loop: the cancellation test, then the sleep.
TrainCheck ==
    /\ tr.pc = "loop" /\ tr.i < tr.steps
    /\ tr' = IF ~ActiveGet(tr) THEN Yield(tr, "failed", "cancel", "cancelled")
             ELSE [tr EXCEPT !.pc = "loop_sleep"]
    /\ UNCHANGED nontrain

\* The end of a pass: the sleep is over, the progress is yielded.
TrainTick ==
    /\ tr.pc = "loop_sleep"
    /\ tr' = Yield([tr EXCEPT !.i = @ + 1], "running", "training", "loop")
    /\ UNCHANGED nontrain

\* After the loop: await asyncio.to_thread(train); train_bayesian has no
\* training and yields 'completed'.
TrainFit ==
    /\ tr.pc = "loop" /\ tr.i = tr.steps
    /\ tr' = IF tr.kind = "bayesian" THEN Yield(tr, "completed", "done", "completed")
             ELSE [tr EXCEPT !.pc = "fitting"]
    /\ UNCHANGED nontrain

\* The training thread is over (or has raised): yield of progress 0.9.
TrainFitted ==
    /\ tr.pc = "fitting"
    /\ \E ok \in BOOLEAN :
          tr' = IF ok THEN Yield(tr, "running", "saving", "save_yield") ELSE TrainFail(tr)
    /\ UNCHANGED nontrain

\* os.makedirs; await asyncio.to_thread(save)
TrainSave ==
    /\ tr.pc = "save_yield"
    /\ \E ok \in BOOLEAN : tr' = IF ok THEN [tr EXCEPT !.pc = "saving"] ELSE TrainFail(tr)
    /\ UNCHANGED nontrain

\* The saving thread is over (or has raised): yield 'completed'.
TrainSaved ==
    /\ tr.pc = "saving"
    /\ \E ok \in BOOLEAN :
          tr' = IF ok THEN Yield(tr, "completed", "done", "completed") ELSE TrainFail(tr)
    /\ UNCHANGED nontrain

\* The generator is resumed after its last yield: return, and
\* finally: self.active_tasks.pop(task_id, None)
TrainFinish ==
    /\ tr.pc \in {"completed", "cancelled", "error"}
    /\ tr' = [tr EXCEPT !.pc = "finished", !.active_tasks[TaskId] = "absent"]
    /\ UNCHANGED nontrain

\* cancel_task(task_id): self.active_tasks[task_id] = False.  cancelled
\* records a call for the generator's task after it has registered and before
\* it has yielded 'completed' or the 'failed' of an exception or has ended,
\* late a call after it has ended.
cancel_task(task_id) ==
    /\ tr.pc # "none"
    /\ tr' = [tr EXCEPT
                !.active_tasks[task_id] = "False",
                !.cancelled = @ \/ (task_id = TaskId /\ tr.pc \notin {"new", "completed", "error", "finished"}),
                !.late = @ \/ (task_id = TaskId /\ tr.pc = "finished")]
    /\ UNCHANGED nontrain

NextTrain ==
    \/ TrainRegister \/ TrainPrepare \/ TrainCheck \/ TrainTick \/ TrainFit
    \/ TrainFitted \/ TrainSave \/ TrainSaved \/ TrainFinish
    \/ \E t \in TaskIds : cancel_task(t)
SpecTrain == InitTrain /\ [][NextTrain]_vars

(***************************************************************************)
(* Claims about the resolvers                                              *)
(***************************************************************************)
RowsFor(a) == {r \in db[a[1]] : KeyOf(a[1], r) = a[2]}

\* C3: sequential resolution is idempotent: every call made with one natural
\* key returns the same identity, and once a call has returned the store holds
\* exactly one row for that key, the one returned.
C3_SequentialIdempotent ==
    \A a \in DOMAIN returned :
        Len(returned[a]) > 0 =>
            /\ \A i \in 1..Len(returned[a]) : returned[a][i] = returned[a][1]
            /\ Cardinality(RowsFor(a)) = 1
            /\ \A r \in RowsFor(a) : r.id = returned[a][1]

\* C3 witness: a key the seeded store does not hold was resolved twice (the
\* first call created the row, the second found it).
C3_Witness ==
    Len(returned[<<"special_rule", Some(<<"SHIN", "NYU">>)>>]) >= 2

\* C4 (as stated): two workers resolving stadium 18 (Tokuyama) end with at most
\* one Stadium row of id 18 and neither call raises: the loser of the insert
\* re-reads the winner's row.
C4_LoserRereads ==
    /\ Cardinality(RowsFor(<<"stadium", 18>>)) <= 1
    /\ \A w \in Workers :
          (wk[w].kind = "stadium" /\ wk[w].key = 18 /\ wk[w].name = <<"TOKU", "YAMA">>)
              => wk[w].pc # "raised"

\* C5 (as stated): the store never holds two decisive-factor rows, or two
\* special-rule rows, with the same name.
C5_NoDuplicateNames ==
    \A a \in DecisiveArgs \cup SpecialArgs :
        Cardinality(RowsFor(<<a[1], a[2]>>)) <= 1

(***************************************************************************)
(* Claims about register_race_result_for_db                                *)
(***************************************************************************)
\* The call is over: it ran to its end, returned early, or raised.
Ended == fr.pc \in {"done", "returned", "raised"}

\* The race spans of the file, as <<block, race>>, and the kind of each.
Spans ==
    {s \in (1..Len(file)) \X (1..MaxSpans) : s[2] <= Len(file[s[1]])}
KindAt(s) == file[s[1]][s[2]]

\* The rows the store holds for a span, and the boat rows of a race row.
RaceRows(s) ==
    {x \in db.each_race_result :
        x.stadium = BlockStadium(s[1]).id /\ x.race_index = s[2]}
BoatRows(x) == {y \in db.each_boat_data : y.each_race_result = x.id}

\* The spans with six boat rows numbered 1..6 and refund lines from the win line on.
WellFormedKinds == {<<"std">>, <<"place1">>, <<"noplace">>, <<"bq1">>, <<"bq2">>}
Persisted(s) ==
    /\ Cardinality(RaceRows(s)) = 1
    /\ \A x \in RaceRows(s) :
          /\ Cardinality(BoatRows(x)) = 6
          /\ {y.boat_number : y \in BoatRows(x)} = 1..6

\* C1 (as stated): once the call is over on a file all of whose spans are
\* well-formed, every span has exactly one race row and exactly six boat rows
\* linked to it, with boat numbers {1..6}.
C1_WellFormedPersisted ==
    (Ended /\ \A s \in Spans : KindAt(s) \in WellFormedKinds)
        => \A s \in Spans : Persisted(s)

\* C2 (as stated): when the call has met the voided-race announcement in a
\* block, the store holds no race row and no boat row of that block, the races
\* before the announcement included.
C2_VoidedBlockEmpty ==
    fr.pc = "returned" =>
        \A s \in Spans :
            KindAt(s) = <<"nogame">> =>
                \A x \in db.each_race_result :
                    /\ x.stadium # BlockStadium(s[1]).id
                    /\ BoatRows(x) = {}

\* C6 (as stated): a span with five boat rows, or with a boat number on two
\* rows, leaves no race row and no boat row, and the spans after it in the
\* file are persisted.
C6_MalformedRejected ==
    Ended =>
        \A s \in Spans :
            KindAt(s) \in {<<"five">>, <<"dup">>} =>
                /\ RaceRows(s) = {}
                /\ \A t \in Spans :
                      (t[1] > s[1] \/ (t[1] = s[1] /\ t[2] > s[2])) => Persisted(t)

\* The key of the boat dictionary a field of the boat row is decoded into.
KeyOfField(f) ==
    CASE f = "boat_number" -> "boat_number" [] f = "reg" -> "player"
      [] f = "motor" -> "motor" [] f = "hull" -> "boat"
      [] f = "sample" -> "sample_time" [] f = "order" -> "starting_order"
      [] f = "timing" -> "start_timing" [] f = "minute" -> "race_time"
NumericFields ==
    {"boat_number", "reg", "motor", "hull", "sample", "order", "timing", "minute"}
\* The third boat row of a span, decoded with nothing garbled.
ThirdBoat(s) ==
    DecodeBoat(db, [stadium |-> Some(BlockStadium(s[1]).id)], BoatLine(GoodBoat(3))).dict
\* y is that row with the field f None and every other field decoded.
RowWithNone(y, s, f) ==
    \A k \in DOMAIN ThirdBoat(s) :
        y[k] = IF k = KeyOfField(f) THEN None ELSE ThirdBoat(s)[k]

\* C7 (as stated): a span whose third boat row has one numeric field garbled
\* does not stop the call, and the row is emitted with that field None and
\* every other field decoded.
C7_BadFieldKeepsRow ==
    \A s \in Spans : \A f \in NumericFields :
        KindAt(s) = BadKind(f) =>
            /\ fr.pc # "raised"
            /\ fr.pc = "done" =>
                  \E x \in RaceRows(s) : \E y \in BoatRows(x) : RowWithNone(y, s, f)

\* The boxed-quinella columns of a race, in order.
BqKeys == <<"boxed_quinella_refund1", "boxed_quinella_refund2", "boxed_quinella_refund3">>
\* The span whose refund lines the loop is reading, while it reads them.
CurrentSpan ==
    {s \in Spans : /\ BlockStadium(s[1]).id = Val(fr.stadium)
                   /\ Val(fr.each_race_results_dict).race_index = s[2]}
AtRefundEnd ==
    /\ InLoop /\ fr.is_refund_data /\ each_line = BLANK_LINE
    /\ ~IsNone(fr.each_race_results_dict)

C9_PlaceRefundsPersisted ==
    Ended =>
        \A s \in Spans :
            KindAt(s) \in {<<"std">>, <<"place1">>} =>
                \E x \in RaceRows(s) : ~IsNone(x.place_refund)

\* C10 (as stated): in a file of several blocks one of which holds the
\* voided-race announcement, every race of every other block is persisted
\* together with its boat rows once the call is over.
C10_OtherBlocksUnaffected ==
    Ended =>
        \A s \in Spans :
            KindAt(s) = <<"nogame">> =>
                \A t \in Spans : t[1] # s[1] => Persisted(t)

\* C11 (as stated): a file whose last KBGN line has no KEND line after it is
\* rejected in full: the call raises and the store holds no race row and no
\* boat row of the file.
C11_UnterminatedRejected ==
    (Ended /\ Len(file) > 0 /\ \E r \in 1..Len(file[Len(file)]) :
                                   file[Len(file)][r] = <<"nokend">>)
        => /\ fr.pc = "raised"
           /\ db.each_race_result = {}
           /\ db.each_boat_data = {}

\* C14 (as stated): records reach the store one race at a time: when the
\* race row of a later race is in the store, the boat rows of every earlier
\* race are in the store as well.
C14_OneRaceAtATime ==
    \A x, y \in db.each_race_result :
        x.id < y.id => BoatRows(x) # {}

\* The refund columns of a race that a span without a place line populates
\* from its own lines, and the payouts of those lines.
TiePayouts ==
    [win_refund |-> 120, quinella_refund |-> 230, boxed_quinella_refund1 |-> 130,
     boxed_quinella_refund2 |-> 150, boxed_quinella_refund3 |-> 280,
     boxed_trifecta_refund |-> 380]

ExpectedArrival(s, n) ==
    IF KindAt(s) = BadKind("arrival") /\ n = 3 THEN 99 ELSE n

\* C17: the arrival order of every boat row, decoded or persisted, is an
\* integer: the one in columns 0-4, or 99 where those columns hold no integer;
\* never None.
C17_ArrivalNeverNone ==
    /\ \A y \in db.each_boat_data : y.order_of_arrival \in Nat
    /\ \A s \in Spans : \A x \in RaceRows(s) : \A y \in BoatRows(x) :
          \E n \in 1..6 :
              /\ y.order_of_arrival = ExpectedArrival(s, n)
              /\ KindAt(s) # <<"dup">> => y.boat_number = n
    /\ (fr.pc = "loop" /\ ~IsNone(fr.each_boat_data_list)) =>
          \A n \in 1..Len(Val(fr.each_boat_data_list)) :
              Val(fr.each_boat_data_list)[n].order_of_arrival \in Nat

\* C17 witness: a boat row whose arrival columns hold no integer is in the
\* store with the sentinel.
C17_Witness ==
    \E s \in Spans :
        /\ KindAt(s) = BadKind("arrival")
        /\ \E x \in RaceRows(s) : \E y \in BoatRows(x) :
              y.boat_number = 3 /\ y.order_of_arrival = 99

\* C18 (as stated): a race header with a blank special-rule slice (the odd
\* races of a file) makes no special-rule entity, and the persisted race
\* references none.
C18_BlankRuleNoEntity ==
    /\ \A y \in db.special_rule : y.special_rule_name # None
    /\ \A s \in Spans : RuleOf(s[2]) = <<>> =>
          \A x \in RaceRows(s) : x.special_rule \notin {y.id : y \in db.special_rule}

\* C19 (as stated): when the call has returned or raised, every race row in
\* the store has its boat rows in the store.
C19_RaceNeverWithoutBoats ==
    Ended => \A x \in db.each_race_result : BoatRows(x) # {}

(***************************************************************************)
(* Claims about register_race_param_for_db                                 *)
(***************************************************************************)
\* The boat rows read so far that name motor number m with a rate of 0.
ZeroRateRows(m) ==
    {k \in 1..Len(pm.motor_dict) :
        pm.motor_dict[k].motor_number = m /\ FloatIsZero(pm.motor_dict[k].motor_top2finish_rate)}
MotorNumbers == {PyInt(m).v : m \in RowMotors}

\* C13 (as stated), on stores that start with at most one row per pair: a
\* Motor row (a Boat row) is created for a boat row only when the pair has no
\* row yet or the rate of the boat row is 0, so a pair never has more rows than
\* one and one per boat row of rate 0, also when several boat rows of the
\* file name the pair.  (The boat rows of the files all carry a non-zero boat
\* rate.)
C13_CreatedOnlyWhenAbsentOrZero ==
    /\ \A m \in MotorNumbers :
          Cardinality({r \in db.motor : r.motor_number = m /\ r.stadium = 18})
              <= 1 + Cardinality(ZeroRateRows(m))
    /\ Cardinality({r \in db.boat : r.boat_number = 31 /\ r.stadium = 18}) <= 1

\* C20 (as stated): the store holds at most one player-data row, one
\* national-win-rate row and one local-win-rate row per (player, date) and
\* one top-2-rate row per (motor, date).
C20_OneSnapshotPerDate ==
    /\ \A x, y \in db.player_data :
          (x.player = y.player /\ x.date = y.date) => x = y
    /\ \A x, y \in db.player_national_win_rate :
          (x.player = y.player /\ x.race_date = y.race_date) => x = y
    /\ \A x, y \in db.player_local_win_rate :
          (x.player = y.player /\ x.race_date = y.race_date) => x = y
    /\ \A x, y \in db.motor_top2finish_rate :
          (x.motor = y.motor /\ x.date = y.date) => x = y

(***************************************************************************)
(* Claims about the batch                                                  *)
(***************************************************************************)

BatchStopped == bt.pc \in {"finished", "dead"}
\* The files the run went through to the end of both calls.
Visited == {e.file : e \in {bt.log[n] : n \in DOMAIN bt.log}}

\* C12: no single file is fatal to the batch: when parsing one file raises,
\* the run skips it, goes on to every remaining file and ends normally.
C12_NoFileFatal ==
    BatchStopped => (bt.pc = "finished" /\ bt.k = Len(bt.files))

\* C15: for every date processed, register_race_param_for_db has returned
\* with all its transactions committed before register_race_result_for_db
\* starts for that date, and both get the date the result file is named after.
C15_ParamBeforeResult ==
    \A n \in DOMAIN bt.log : bt.log[n].op = "result" =>
        /\ n > 1
        /\ bt.log[n - 1].op = "param"
        /\ bt.log[n - 1].file = bt.log[n].file
        /\ bt.log[n - 1].returned
        /\ bt.log[n - 1].committed = ParamTransactions
        /\ bt.log[n - 1].date = bt.log[n].date
        /\ bt.log[n].date = bt.files[bt.log[n].file].day
C15_Witness ==
    \E n \in DOMAIN bt.log :
        bt.log[n].op = "result" /\ bt.log[n].file = 2 /\ bt.log[n].date = <<2024, 1, 2>>

(***************************************************************************)
(* Claims about the classifier of register_race_result_for_db              *)
(***************************************************************************)

\* The payout of the n-th line of the boxed quinella of a span: the label
\* line is the first, the unlabelled lines that follow it the second and third.
BqPayouts == <<130, 150, 280>>
ExpectedBq(kind, n) == IF n <= BqLines(kind) THEN Some(BqPayouts[n]) ELSE None

\* C21: boxed_quinella_refund2 and boxed_quinella_refund3 are populated only
\* from the unlabelled lines that directly follow the boxed-quinella label
\* line of the race: every persisted race row holds in them the payouts of
\* those lines (None where there is no such line), whatever unlabelled line
\* came before the label.
C21_BoxedOnlyAfterLabel ==
    \A s \in Spans : \A x \in RaceRows(s) : \A n \in 2..3 :
        x[BqKeys[n]] = ExpectedBq(KindAt(s), n)

\* C22: a race whose header line cannot be decoded (race index, wind speed,
\* wave height, or the H marker) is the only race voided: the call does not
\* abort, the race has no row, and every other race of the file is persisted
\* with its boat rows.
C22_BadHeaderVoidsOneRace ==
    \A t \in Spans : KindAt(t)[1] = "hdr" =>
        (Ended => /\ fr.pc = "done"
                  /\ RaceRows(t) = {}
                  /\ \A s \in Spans \ {t} : Persisted(s))

\* The positions (from 1) of the separator lines and of the win lines.
SepIndexes == {k \in 1..Len(result_content) : In(RESULT_SEPARATOR_LINE, result_content[k])}
WinIndexes == {k \in 1..Len(result_content) : In(TANSHO, result_content[k])}
\* The header line and the table header the files give race r.
GoodHeader(r) == HeaderLine(Tok(r), RuleOf(r), <<"H">>, Tok(r + 1), Tok(r + 2))
\* The dictionary holds what the header of race r and its table header say.
HoldsHeaderOf(d, r) ==
    /\ d.race_index = r /\ d.wind_speed = r + 1 /\ d.wave_height = r + 2
    /\ \E x \in db.decisive_factor :
          x.id = d.decisive_factor /\ x.decisive_factor_name = DecisiveOf(r) \o <<"NL">>
\* The line the loop has just consumed is at position fr.i.
JustRead(indexes) ==
    fr.pc = "loop" /\ fr.i \in indexes /\ ~IsNone(fr.each_race_results_dict)

FlagsSet == {g \in {"is_stadium", "is_each_result_info", "is_refund_data"} : fr[g]}

\* C24: the classifier is in one state at a time: no two of is_stadium,
\* is_each_result_info and is_refund_data are true together, and neither the
\* boat-row nor the refund-row state is active when a KBGN line is reached.
C24_OneStateAtATime ==
    /\ Cardinality(FlagsSet) <= 1
    /\ (InLoop /\ In(KBGN, each_line)) => (~fr.is_each_result_info /\ ~fr.is_refund_data)

\* The stadium names of the blocks, as the store keeps them.
BlockNames == {remove_all_blank(BlockStadium(b).name) : b \in 1..MaxBlocks}

\* C25: the stadium name of a block is taken from the first non-empty line
\* after the KBGN line: a blank line between the two is skipped, the call
\* does not stop at it, and no stadium is stored under another name than
\* that of its name line.
C25_NameFromFirstNonEmptyLine ==
    /\ \A x \in db.stadium : x.stadium_name \in BlockNames
    /\ ~(fr.pc = "raised" /\ fr.is_stadium /\ result_content[fr.i + 1] = BLANK_LINE)

\* The positions (from 1) of the KEND lines whose code is not the one of the
\* KBGN line last read.  In the files such a line stands between two boat
\* rows of a race.
ForeignKendIndexes ==
    {k \in 1..Len(result_content) :
        /\ In(KEND, result_content[k])
        /\ ~IsNone(fr.stadium_id)
        /\ PyInt(Slice(result_content[k], 0, 2)).v # Val(fr.stadium_id)}

\* C26: a block opened by NN KBGN is closed only by the KEND line of the
\* same code NN: after a KEND line of another code has been read the
\* classifier is still in the boat rows it was reading.
C26_ForeignKendIgnored ==
    (fr.pc = "loop" /\ fr.i \in ForeignKendIndexes) => fr.is_each_result_info

(***************************************************************************)
(* Claims about the classifier of register_race_param_for_db               *)
(***************************************************************************)

\* The boat rows of the parameter files.
RowLines == {ParamRowLine(b) : b \in ParamRows}

\* C27: a line of a parameter block is decoded as a boat row if and only if
\* it lies after the second separator line of its race group and before the
\* next blank line or BEND line, that is, if and only if it is one of the
\* boat rows of the file, whatever number of separator lines came before.
C27_OnlyBoatRowsDecoded ==
    InParamLoop => (ParamBranch(pm, param_line) = "boat_row" <=> param_line \in RowLines)

\* The Motor rows of the same number and stadium as m that were created after it.
NewerMotors(m) ==
    {n \in db.motor : n.motor_number = m.motor_number /\ n.stadium = m.stadium /\ n.id > m.id}

\* C28: once a new Motor row has been created for a (number, stadium) that
\* had one, because a rate of 0 was supplied, the rate snapshots recorded
\* afterwards reference the new row: no snapshot references a Motor row for
\* which a newer row of the same number and stadium exists.  (The call
\* records its snapshots after it has created its Motor rows.)
C28_SnapshotsReferenceNewRow ==
    \A r \in db.motor_top2finish_rate : \A m \in db.motor :
        r.motor = Some(m.id) => NewerMotors(m) = {}

(***************************************************************************)
(* Claims about transaction                                                *)
(***************************************************************************)

\* The with-blocks of register_race_param_for_db in their order, and whether
\* the call has left block p behind without an exception.
ParamBlocks ==
    <<"players", "ranks", "branches", "player_data", "national", "local",
      "motors", "motor_rates", "boats", "boat_rates", "done">>
BlockIndex(p) == CHOOSE k \in DOMAIN ParamBlocks : ParamBlocks[k] = p
Completed(p) ==
    pm.pc \in {ParamBlocks[k] : k \in DOMAIN ParamBlocks} /\ BlockIndex(pm.pc) > BlockIndex(p)

\* C30: an exception inside a with transaction(session) block rolls the
\* session back, none of the rows added in the block is persisted and the
\* exception leaves the call; a block that completes commits every row it
\* added.  (boat_top2finish_rate and player are the tables of the two blocks
\* that raise; in the stores the call starts on the first is empty, and the
\* second is empty whenever a player is missing.)
C30_TransactionAtomic ==
    /\ (pm.pc = "raised" /\ pm.exc = "InterfaceError") => db.boat_top2finish_rate = {}
    /\ (pm.pc = "raised" /\ pm.exc = "TypeError") => db.player = {}
    /\ pm.pc = "done" => pm.boat_dict = <<>>
    /\ Completed("ranks") =>
          \A k \in DOMAIN pm.player_rank_list :
              \E r \in db.rank : r.rank_name = pm.player_rank_list[k]
    /\ Completed("player_data") =>
          \A k \in DOMAIN pm.player_data_dict :
              \E r \in db.player_data : /\ r.player = Some(pm.player_data_dict[k].player_id)
                                        /\ r.date = RaceDate
    /\ Completed("motor_rates") =>
          \A k \in DOMAIN pm.motor_dict :
              \E r \in db.motor_top2finish_rate :
                  /\ r.motor = motor_get(db, pm.motor_dict[k].motor_number, pm.motor_dict[k].stadium)
                  /\ r.date = RaceDate
\* C30 witness: the last block raised at its commit after the earlier blocks
\* had committed their rows.
C30_Witness ==
    /\ pm.pc = "raised" /\ pm.exc = "InterfaceError"
    /\ Len(pm.boat_dict) = 2
    /\ db.motor_top2finish_rate # {} /\ db.player_data # {}

(***************************************************************************)
(* Claims about the training service                                       *)
(***************************************************************************)

\* C29: if cancel_task(task_id) is called after the generator has registered
\* the task and before it has yielded 'completed', the generator never yields
\* 'completed': unless an exception ends it first, it ends with the cancelled
\* 'failed' progress, and active_tasks holds no entry for the task once it
\* has finished (no call of cancel_task having come after that).
C29_CancelledNeverCompletes ==
    tr.cancelled =>
        /\ \A k \in DOMAIN tr.out : tr.out[k][1] # "completed"
        /\ (tr.pc = "finished" /\ \A k \in DOMAIN tr.out : tr.out[k] # <<"failed", "error">>)
              => tr.out[Len(tr.out)] = <<"failed", "cancel">>
        /\ (tr.pc = "finished" /\ ~tr.late) => tr.active_tasks[TaskId] = "absent"

====
